---- MODULE Spec2Model ----
(***************************************************************************)
(* Model of the layered cipher verification engine of the Game app:        *)
(*   app/utils.py   aes_decrypt, vigenere_decrypt, rsa_decrypt,            *)
(*                  verify_challenge_solution                              *)
(*   tool.py        aes_encrypt, vigenere_encrypt, rsa_encrypt             *)
(*   ltool.py       the layer composer (run_layered_encryption_script)     *)
(*                                                                         *)
(* A Python str is a sequence of code points (integers), so that ord/chr   *)
(* arithmetic, strip, startswith, split and int() are computed as the code *)
(* computes them.  Values that flow through the cipher library are tagged  *)
(* records (field t).  AES, RSA and base64 are library primitives; they    *)
(* are modelled as symbolic terms under the usual perfect-cipher reading:  *)
(* a ciphertext decrypts only under the key that made it.                  *)
(***************************************************************************)
EXTENDS Integers, Sequences, FiniteSets, TLC

VARIABLES
    challenge,           \* the Challenge row handed to verify_challenge_solution
    submitted_solution,  \* the raw string the user submitted
    result,              \* outcome of the last verify_challenge_solution call
    cipher,              \* tool.py / utils.py round-trip session
    author,              \* ltool.py layer composer session
    call,                \* one call of an inverse of app/utils.py
    current_app,         \* the attribute the handler hangs on the Flask app
    requests,            \* the invocations one process serves at once
    page,                \* one request to the challenge details route
    db                   \* the rows of the database the routes read and write

vars == <<challenge, submitted_solution, result, cipher, author, call, current_app, requests, page, db>>

----------------------------------------------------------------------------
(* Python str primitives, on sequences of code points *)

\* str.strip() with no argument removes these (space, tab, newline)
Whitespace == {32, 9, 10}

RECURSIVE lstrip(_)
lstrip(s) ==
    IF s # <<>> /\ Head(s) \in Whitespace THEN lstrip(Tail(s)) ELSE s

RECURSIVE rstrip(_)
rstrip(s) ==
    IF s # <<>> /\ s[Len(s)] \in Whitespace
    THEN rstrip(SubSeq(s, 1, Len(s) - 1))
    ELSE s

strip(s) == rstrip(lstrip(s))

\* A variant of startswith that ignores the case of ASCII letters.
startswith_nocase(s, p) ==
    /\ Len(s) >= Len(p)
    /\ \A i \in 1..Len(p) :
          s[i] = p[i] \/ (s[i] \in 97..122 /\ s[i] - 32 = p[i])

startswith(s, p) == Len(s) >= Len(p) /\ SubSeq(s, 1, Len(p)) = p

\* A variant of endswith that accepts any ending.
endswith_any(s, p) == TRUE

endswith(s, p) ==
    Len(s) >= Len(p) /\ SubSeq(s, Len(s) - Len(p) + 1, Len(s)) = p

\* "Flag{" and "}" and "_"
FlagPrefix == <<70, 108, 97, 103, 123>>
FlagSuffix == <<125>>
Underscore == <<95>>

\* Positions of sep in s
Positions(s, c) == {i \in 1..Len(s) : s[i] = c}

Min(S) == CHOOSE x \in S : \A y \in S : x <= y
Max(S) == CHOOSE x \in S : \A y \in S : x >= y

\* A variant that splits on the LAST underscore (rsplit), used to test
\* that the first-underscore property depends on split1.
rsplit1(s) ==
    IF Positions(s, 95) = {} THEN <<s>>
    ELSE LET i == Max(Positions(s, 95))
         IN  <<SubSeq(s, 1, i - 1), SubSeq(s, i + 1, Len(s))>>

\* flag_content.split('_', 1)
split1(s) ==
    IF Positions(s, 95) = {} THEN <<s>>
    ELSE LET i == Min(Positions(s, 95))
         IN  <<SubSeq(s, 1, i - 1), SubSeq(s, i + 1, Len(s))>>

Digits == 48..57

RECURSIVE DigitsValue(_)
DigitsValue(s) ==
    IF s = <<>> THEN 0
    ELSE 10 * DigitsValue(SubSeq(s, 1, Len(s) - 1)) + (s[Len(s)] - 48)

\* int(s): surrounding whitespace is ignored, one optional sign, then at
\* least one decimal digit.  ok = FALSE stands for ValueError.
int(s) ==
    LET t == strip(s)
        signed == t # <<>> /\ t[1] \in {43, 45}
        d == IF signed THEN Tail(t) ELSE t
    IN  IF d # <<>> /\ \A i \in 1..Len(d) : d[i] \in Digits
        THEN [ok |-> TRUE,
              val |-> IF signed /\ t[1] = 45 THEN 0 - DigitsValue(d)
                      ELSE DigitsValue(d)]
        ELSE [ok |-> FALSE, val |-> 0]

----------------------------------------------------------------------------
(* Values that flow through the cipher library.                            *)
(*   str values : Str(s) plain text, B64(b) base64 text of the bytes b,    *)
(*                Shifted(..) base64 text whose letters were shifted by    *)
(*                Vigenere, Pem(..) an exported RSA key, and two kinds of  *)
(*                text the composer can make: "prefix" (the first n bytes  *)
(*                of a text) and "garbled" (plain text run through         *)
(*                base64.b64decode)                                        *)
(*   bytes      : Enc(v) the UTF-8 bytes of the str v, Rand16(n) sixteen   *)
(*                random bytes, Padded(b), AesCt(..), RsaCt(..), Garbage   *)
(*   other      : None, Num(n) (a JSON number found where a str should be) *)

None == [t |-> "None"]
Str(s) == [t |-> "str", s |-> s]
Num(n) == [t |-> "num", n |-> n]
B64(b) == [t |-> "b64", b |-> b]
Enc(v) == [t |-> "enc", of |-> v]
Rand16(n) == [t |-> "rand16", id |-> n]
Padded(b) == [t |-> "padded", p |-> b]
AesCt(k, iv, b) == [t |-> "aesct", ck |-> k, civ |-> iv, cpt |-> b]
RsaCt(pair, b) == [t |-> "rsact", cpair |-> pair, rpt |-> b]
Pem(kind, pair) == [t |-> "pem", kind |-> kind, pair |-> pair]
Shifted(x, k, dir) == [t |-> "shifted", base |-> x, sk |-> k, dir |-> dir]
Garbage == [t |-> "garbage"]

IsStrValue(v) == v.t \in {"str", "b64", "shifted", "pem", "prefix", "garbled"}

\* Python truthiness of a value used in `if current_data_blob and key`
Truthy(v) ==
    CASE v.t = "None" -> FALSE
      [] v.t = "str" -> v.s # <<>>
      [] v.t = "num" -> v.n # 0
      [] OTHER -> TRUE

\* str.isalpha() / str.isupper() on one character.  Besides A-Z and a-z the
\* model's alphabet holds two letters outside ASCII: 201 and 233 (E acute,
\* upper and lower case), for which isalpha() is true as well.
AsciiUpper == 65..90
AsciiLower == 97..122
OtherUpper == {201}
OtherLower == {233}
isalpha(c) == c \in AsciiUpper \cup AsciiLower \cup OtherUpper \cup OtherLower
isupper(c) == c \in AsciiUpper \cup OtherUpper
upper(c) == IF c \in AsciiLower \cup OtherLower THEN c - 32 ELSE c

\* ''.join(c for c in key if c.isalpha()).upper()
RECURSIVE normalize_key(_)
normalize_key(key) ==
    IF key = <<>> THEN <<>>
    ELSE IF isalpha(Head(key))
         THEN <<upper(Head(key))>> \o normalize_key(Tail(key))
         ELSE normalize_key(Tail(key))

\* characters base64.b64decode does not discard
Base64Alphabet == (65..90) \cup (97..122) \cup (48..57) \cup {43, 47}

\* base64.b64decode(x): the bytes a base64 text stands for.  A value that
\* is not text raises TypeError.  In a plain text the characters outside
\* the base64 alphabet are discarded and the rest must come in fours, or
\* binascii.Error is raised; what comes out of text the model did not
\* encode is garbage.  exc = "" when nothing is raised.
b64decode(x) ==
    CASE x.t = "b64" -> [ok |-> TRUE, bytes |-> x.b, exc |-> ""]
      [] x.t = "str" ->
           LET n == Cardinality({i \in 1..Len(x.s) :
                                    x.s[i] \in Base64Alphabet})
           IN  IF n % 4 = 0
               THEN [ok |-> TRUE, bytes |-> Garbage, exc |-> ""]
               ELSE [ok |-> FALSE, bytes |-> Garbage,
                     exc |-> "binascii.Error"]
      [] x.t \in {"shifted", "pem", "prefix", "garbled"} ->
           [ok |-> TRUE, bytes |-> Garbage, exc |-> ""]
      [] OTHER -> [ok |-> FALSE, bytes |-> Garbage, exc |-> "TypeError"]

\* bytes.decode('utf-8'): only the bytes of an encoded str decode.
decode_utf8(b) ==
    IF b.t = "enc" THEN [ok |-> TRUE, text |-> b.of]
    ELSE [ok |-> FALSE, text |-> None]

\* What a try block leaves: the exception raised in it ("" when none) and
\* the value it returned.
Returned(value) == [exc |-> "", value |-> value]
Raise(exc) == [exc |-> exc, value |-> None]
\* an exception on its way out of a function
Escaped(exc) == [t |-> "raise", exc |-> exc]

\* A variant of the handler that lets the exception through.
uncaught(body) ==
    IF body.exc # "" THEN Escaped(body.exc) ELSE body.value

\* `except Exception as e: print(...); return None` (utils.py 33-36, 72-74,
\* 91-94)
caught(body) ==
    IF body.exc # "" THEN None ELSE body.value

\* app/utils.py aes_decrypt, lines 22-32: the try block
aes_decrypt_try(ciphertext_b64, key_b64, iv_b64) ==
    LET ciphertext == b64decode(ciphertext_b64)
        key == b64decode(key_b64)
        iv == b64decode(iv_b64)
    IN  IF ~ciphertext.ok THEN Raise(ciphertext.exc)
        ELSE IF ~key.ok THEN Raise(key.exc)
        ELSE IF ~iv.ok THEN Raise(iv.exc)
        \* AES.new: key of 16, 24 or 32 bytes, iv of 16
        ELSE IF key.bytes.t # "rand16" \/ iv.bytes.t # "rand16"
        THEN Raise("ValueError")
        \* cipher.decrypt and unpad: wrong length or padding
        ELSE IF ciphertext.bytes.t # "aesct" THEN Raise("ValueError")
        ELSE IF ciphertext.bytes.ck # key.bytes.id
                \/ ciphertext.bytes.civ # iv.bytes.id
        THEN Raise("ValueError")
        ELSE LET padded_plaintext == ciphertext.bytes.cpt
             IN  IF padded_plaintext.t # "padded" THEN Raise("ValueError")
                 ELSE LET plaintext == decode_utf8(padded_plaintext.p)
                      IN  IF plaintext.ok THEN Returned(plaintext.text)
                          ELSE Raise("UnicodeDecodeError")

\* app/utils.py aes_decrypt: every exception is caught and mapped to None.
aes_decrypt(ciphertext_b64, key_b64, iv_b64) ==
    caught(aes_decrypt_try(ciphertext_b64, key_b64, iv_b64))

\* A variant of the loop that does not go round the alphabet.
vigenere_decrypt_loop_straight(ciphertext, key, key_index, plaintext) ==
    [i \in 1..Len(ciphertext) |->
        IF isalpha(ciphertext[i])
        THEN ciphertext[i] - (key[((key_index + i - 1) % Len(key)) + 1] - 65)
        ELSE ciphertext[i]]

\* app/utils.py 52-69
RECURSIVE vigenere_decrypt_loop(_, _, _, _)
vigenere_decrypt_loop(ciphertext, key, key_index, plaintext) ==
    IF ciphertext = <<>> THEN plaintext
    ELSE LET char == Head(ciphertext)
         IN  IF isalpha(char)
             THEN LET shift == key[(key_index % Len(key)) + 1] - 65
                      decrypted_char ==
                          IF isupper(char)
                          THEN (((char - 65) - shift) % 26) + 65
                          ELSE (((char - 97) - shift) % 26) + 97
                  IN  vigenere_decrypt_loop(Tail(ciphertext), key,
                          key_index + 1, Append(plaintext, decrypted_char))
             ELSE vigenere_decrypt_loop(Tail(ciphertext), key,
                      key_index, Append(plaintext, char))

\* TRUE when every key letter is 'A': the cipher is then the identity.
ZeroKey(key) == \A i \in 1..Len(key) : (key[i] - 65) % 26 = 0

\* app/utils.py vigenere_decrypt, lines 41-71: the try block.  A key or a
\* ciphertext that is not a str (None, a number of the config) raises
\* TypeError when it is iterated.  Base64 text is not spelled out character
\* by character: shifting its letters gives the symbolic text Shifted(..),
\* which the matching encryption key undoes.
vigenere_decrypt_try(ciphertext, key) ==
    IF ~IsStrValue(key) \/ ~IsStrValue(ciphertext) THEN Raise("TypeError")
    ELSE IF key.t # "str" THEN Returned(Shifted(ciphertext, <<0>>, "dec"))
    ELSE LET k == normalize_key(key.s)
         IN  IF k = <<>> THEN Returned(None)
             ELSE IF ciphertext.t = "str"
             THEN Returned(Str(vigenere_decrypt_loop(ciphertext.s, k, 0, <<>>)))
             ELSE IF ZeroKey(k) THEN Returned(ciphertext)
             ELSE IF ciphertext.t = "shifted" /\ ciphertext.dir = "enc"
                     /\ ciphertext.sk = k
             THEN Returned(ciphertext.base)
             ELSE Returned(Shifted(ciphertext, k, "dec"))

\* app/utils.py vigenere_decrypt
vigenere_decrypt(ciphertext, key) ==
    caught(vigenere_decrypt_try(ciphertext, key))

\* app/utils.py rsa_decrypt, lines 80-90: the try block
rsa_decrypt_try(ciphertext_b64, private_key_str) ==
    LET ciphertext == b64decode(ciphertext_b64)
    IN  IF ~ciphertext.ok THEN Raise(ciphertext.exc)
        \* RSA.import_key
        ELSE IF private_key_str.t # "pem" THEN Raise("ValueError")
        \* cipher.decrypt with a public key
        ELSE IF private_key_str.kind # "private" THEN Raise("TypeError")
        ELSE IF ciphertext.bytes.t # "rsact" THEN Raise("ValueError")
        ELSE IF ciphertext.bytes.cpair # private_key_str.pair
        THEN Raise("ValueError")
        ELSE LET plaintext == decode_utf8(ciphertext.bytes.rpt)
             IN  IF plaintext.ok THEN Returned(plaintext.text)
                 ELSE Raise("UnicodeDecodeError")

\* app/utils.py rsa_decrypt
rsa_decrypt(ciphertext_b64, private_key_str) ==
    caught(rsa_decrypt_try(ciphertext_b64, private_key_str))

----------------------------------------------------------------------------
(* challenge.config_json and json.loads.  The column holds nothing, text   *)
(* that is not JSON, or a JSON document; a document is kept as the value   *)
(* json.loads returns for it: an object (a record of its members), an      *)
(* empty object, a list, or a scalar (Str, Num, None).                     *)

NoConfig == [c |-> "empty"]
BadJson == [c |-> "invalid"]
Json(v) == [c |-> "json", doc |-> v]

JObj(m) == [j |-> "obj", m |-> m]
JEmptyObj == [j |-> "obj0"]
JList(items) == [j |-> "list", items |-> items]

IsDict(v) == "j" \in DOMAIN v /\ v.j \in {"obj", "obj0"}
IsList(v) == "j" \in DOMAIN v /\ v.j = "list"
HasKey(d, k) == d.j = "obj" /\ k \in DOMAIN d.m
\* dict.get(k) for a key whose value is a str, number or null
Get(d, k) == IF HasKey(d, k) THEN d.m[k] ELSE None
\* layer_config.get("type"): the tag, "" when the key is missing
GetType(d) == IF HasKey(d, "type") THEN d.m.type ELSE ""

\* The Challenge row (app/models.py).  present = FALSE stands for a call
\* with challenge = None.
Challenge(id, category, flag, challenge_data, encryption_type, config_json) ==
    [present |-> TRUE, id |-> id, category |-> category, flag |-> flag,
     challenge_data |-> challenge_data, encryption_type |-> encryption_type,
     config_json |-> config_json]

NoChallenge ==
    [present |-> FALSE, id |-> 0, category |-> "", flag |-> <<>>,
     challenge_data |-> None, encryption_type |-> "", config_json |-> NoConfig]

\* One call of an inverse from the pipeline
Call(fn, layer, input, output) ==
    [fn |-> fn, layer |-> layer, input |-> input, output |-> output]

\* A variant of the guards that lets every layer of a known type through.
layer_ready_any(layer_type, layer_config, current_data_blob) ==
    layer_type \in {"aes", "vigenere", "rsa"}

\* utils.py 207, 217, 234: the guard in front of each inverse, and the else
\* branch of 252 for a type that is none of the three
layer_ready(layer_type, layer_config, current_data_blob) ==
    CASE layer_type = "aes" ->
           Truthy(current_data_blob)
           /\ Truthy(Get(layer_config, "key"))
           /\ Truthy(Get(layer_config, "iv"))
      [] layer_type = "vigenere" ->
           Truthy(current_data_blob)
           /\ Truthy(Get(layer_config, "key"))
      [] layer_type = "rsa" ->
           Truthy(current_data_blob)
           /\ Truthy(Get(layer_config, "private_key"))
      [] OTHER -> FALSE

\* A variant of the hand-over that keeps the data the layer was given.
next_blob_kept(current_data_blob, decrypted_result) == current_data_blob

\* utils.py 259: current_data_blob = decrypted_result
next_blob(current_data_blob, decrypted_result) == decrypted_result

\* The layer loop of verify_challenge_solution (utils.py 195-263), from layer
\* i on.  status: "done" all layers inverted, "failed" after a break,
\* "raise" when layer_config.get raised AttributeError.
RECURSIVE layer_loop(_, _, _, _)
layer_loop(layers, i, current_data_blob, calls) ==
    IF i > Len(layers)
    THEN [status |-> "done", blob |-> current_data_blob, calls |-> calls]
    ELSE LET layer_config == layers[i]
             failed == [status |-> "failed", blob |-> current_data_blob,
                        calls |-> calls]
         IN
         IF ~IsDict(layer_config)
         THEN [status |-> "raise", blob |-> current_data_blob, calls |-> calls]
         ELSE
         LET layer_type == GetType(layer_config)
             usable == layer_ready(layer_type, layer_config, current_data_blob)
             decrypted_result ==
                 CASE layer_type = "aes" ->
                        aes_decrypt(current_data_blob,
                            Get(layer_config, "key"), Get(layer_config, "iv"))
                   [] layer_type = "vigenere" ->
                        vigenere_decrypt(current_data_blob,
                            Get(layer_config, "key"))
                   [] layer_type = "rsa" ->
                        rsa_decrypt(current_data_blob,
                            Get(layer_config, "private_key"))
                   [] OTHER -> None
             called == Append(calls,
                 Call(layer_type, i, current_data_blob, decrypted_result))
         IN  IF ~usable THEN failed
             ELSE IF decrypted_result.t # "None"
             THEN layer_loop(layers, i + 1,
                             next_blob(current_data_blob, decrypted_result),
                             called)
             ELSE [status |-> "failed", blob |-> current_data_blob,
                   calls |-> called]

\* What a call of verify_challenge_solution leaves behind:
\*   raised      an exception escaped to the caller (verdict is then FALSE)
\*   verdict     the boolean returned
\*   path        the return statement (or raise) that ended the call
\*   parts       flag_content.split('_', 1) when the call got that far
\*   json_loaded json.loads was called
\*   calls       the inverses called, in order, with input and output
\*   final       the text the cipher path ended with (None when there is none)
\*   attr_set    current_app.challenge_id_for_log is still set at exit
Outcome(raised, verdict, path, parts, json_loaded, calls, final, attr_set) ==
    [raised |-> raised, verdict |-> verdict, path |-> path, parts |-> parts,
     json_loaded |-> json_loaded, calls |-> calls, final |-> final,
     attr_set |-> attr_set]

Reject(path, parts) ==
    Outcome(FALSE, FALSE, path, parts, FALSE, <<>>, None, FALSE)

\* A variant of the comparison that does not trim either side.
answers_match_exact(submitted_answer_part, flag) ==
    submitted_answer_part = flag

\* utils.py 269, 317, 326: submitted_answer_part.strip() == challenge.flag.strip()
answers_match(submitted_answer_part, flag) ==
    strip(submitted_answer_part) = strip(flag)

\* A variant of the verdict that forgets whether the loop was left early.
layered_verdict_lenient(run, matches) == matches

\* A variant of the verdict that does not look at the submitted answer.
layered_verdict_unmatched(run, matches) == run.status = "done"

\* utils.py 266-274: is_correct after the layer loop
layered_verdict(run, matches) ==
    IF run.status = "done"
    THEN run.blob.t # "None" /\ matches
    ELSE FALSE

\* A variant of the test that looks at the single algorithm first.
use_layers_untyped(ch, layers) ==
    ch.encryption_type = "" /\ IsList(layers) /\ layers.items # <<>>

\* utils.py 189: isinstance(layers, list) and layers
use_layers(ch, layers) == IsList(layers) /\ layers.items # <<>>

\* utils.py 174-319: the branch for category 'Cryptography'
verify_crypto(ch, submitted_answer_part, parts) ==
    IF ch.config_json.c = "invalid"
    THEN Outcome(FALSE, FALSE, "bad_json", parts, TRUE, <<>>, None, FALSE)
    ELSE
    LET json_loaded == ch.config_json.c = "json"
        config == IF json_loaded THEN ch.config_json.doc ELSE JEmptyObj
        matches == answers_match(submitted_answer_part, ch.flag)
    IN
    IF ~IsDict(config)
    THEN \* config.get("layers") on a list, str, number or None
         Outcome(TRUE, FALSE, "AttributeError", parts, json_loaded, <<>>,
                 None, TRUE)
    ELSE
    LET layers == IF HasKey(config, "layers") THEN config.m.layers ELSE None
    IN
    IF use_layers(ch, layers)
    THEN LET run == layer_loop(layers.items, 1, ch.challenge_data, <<>>)
         IN  CASE run.status = "raise" ->
                    Outcome(TRUE, FALSE, "AttributeError", parts, json_loaded,
                            run.calls, None, TRUE)
               [] run.status = "failed" ->
                    Outcome(FALSE, layered_verdict(run, matches), "layered",
                            parts, json_loaded, run.calls, None, FALSE)
               [] OTHER ->
                    Outcome(FALSE, layered_verdict(run, matches), "layered",
                            parts, json_loaded, run.calls, run.blob, FALSE)
    ELSE
    LET et == ch.encryption_type
        usable ==
            CASE et = "aes" -> Truthy(ch.challenge_data)
                               /\ HasKey(config, "key") /\ HasKey(config, "iv")
              [] et = "vigenere" -> Truthy(ch.challenge_data)
                                    /\ HasKey(config, "key")
              [] et = "rsa" -> Truthy(ch.challenge_data)
                               /\ HasKey(config, "private_key")
              [] OTHER -> FALSE
        decrypted_text ==
            IF ~usable THEN None
            ELSE CASE et = "aes" ->
                        aes_decrypt(ch.challenge_data, config.m.key, config.m.iv)
                   [] et = "vigenere" ->
                        vigenere_decrypt(ch.challenge_data, config.m.key)
                   [] et = "rsa" ->
                        rsa_decrypt(ch.challenge_data, config.m.private_key)
        calls == IF usable
                 THEN <<Call(et, 1, ch.challenge_data, decrypted_text)>>
                 ELSE <<>>
    IN  Outcome(FALSE, decrypted_text.t # "None" /\ matches, "single", parts,
                json_loaded, calls, decrypted_text, FALSE)

\* A variant of the identity check that accepts a token bound to any
\* challenge id.
IdRejectedAny(parsed_id, ch) == FALSE

\* utils.py 158: int(submitted_id_str) != challenge.id
IdRejected(parsed_id, ch) == parsed_id # ch.id

\* app/utils.py verify_challenge_solution
verify_challenge_solution(submitted, ch) ==
    IF submitted = <<>> \/ ~ch.present
    THEN Reject("absent", <<>>)
    ELSE
    LET submitted_solution_stripped == strip(submitted)
    IN
    IF ~startswith(submitted_solution_stripped, FlagPrefix)
       \/ ~endswith(submitted_solution_stripped, FlagSuffix)
    THEN Reject("format", <<>>)
    ELSE
    LET flag_content == SubSeq(submitted_solution_stripped,
                               Len(FlagPrefix) + 1,
                               Len(submitted_solution_stripped) - 1)
        parts == split1(flag_content)
    IN
    IF Len(parts) # 2 THEN Reject("underscore", parts)
    ELSE
    LET submitted_id_str == parts[1]
        submitted_answer_part == parts[2]
        parsed == int(submitted_id_str)
    IN
    IF ~parsed.ok THEN Reject("id_parse", parts)
    ELSE IF IdRejected(parsed.val, ch) THEN Reject("id_mismatch", parts)
    ELSE IF ch.category = "Cryptography"
    THEN verify_crypto(ch, submitted_answer_part, parts)
    ELSE Outcome(FALSE, answers_match(submitted_answer_part, ch.flag),
                 "non_crypto", parts, FALSE, <<>>, None, FALSE)

----------------------------------------------------------------------------
(* Inputs of the verification specification *)

\* longest answer payload / stored flag drawn
MaxAnswerLen == 2
\* longest layers list drawn
MaxLayers == 2

SeqsUpTo(A, n) == UNION {[1..k -> A] : k \in 0..n}

\* 'a', '_', ' '
AnswerAlphabet == {97, 95, 32}
Answers == SeqsUpTo(AnswerAlphabet, MaxAnswerLen)
\* the admin form requires a flag that is not blank (admin/forms.py 23)
Flags == {a \in Answers : strip(a) # <<>>}

\* what stands where the challenge id should: "7" "8" "07" " 7" "+7" "-7"
\* "x" "" "7x" "78"
IdStrings ==
    {<<55>>, <<56>>, <<48, 55>>, <<32, 55>>, <<43, 55>>, <<45, 55>>,
     <<120>>, <<>>, <<55, 120>>, <<55, 56>>}

\* "Flag{" and two near misses: "flag{" and "Flag"
Prefixes == {FlagPrefix, <<102, 108, 97, 103, 123>>, <<70, 108, 97, 103>>}

Tokens ==
    {<<>>} \cup
    {ws[1] \o pre \o id \o rest \o suf \o ws[2] :
        ws \in {<< <<>>, <<>> >>, << <<32>>, <<10>> >>},
        pre \in Prefixes,
        id \in IdStrings,
        rest \in {<<>>} \cup {Underscore \o a : a \in Answers},
        suf \in {FlagSuffix, <<>>}}

ChallengeIds == {7, 8}

PlainChallenges ==
    {NoChallenge} \cup
    {Challenge(id, "Web", flag, None, "", NoConfig) :
        id \in ChallengeIds, flag \in Flags}

\* Cipher material of the stored challenges: two AES keys and IVs, two RSA
\* key pairs, and the secret "a" under each cipher.
Secret == Str(<<97>>)
KeyB64(n) == B64(Rand16(n))
AesBlob == B64(AesCt(1, 2, Padded(Enc(Secret))))
RsaBlob == B64(RsaCt(1, Enc(Secret)))
\* "b" is "a" under the Vigenere key "B"; "c" is not
VigBlob == Str(<<98>>)
OtherText == Str(<<99>>)
KeyB == Str(<<66>>)
\* "1": a Vigenere key with no letters
KeyNoLetters == Str(<<49>>)

Blobs == {None, Str(<<>>), AesBlob, RsaBlob, VigBlob, OtherText}

LayerChoices ==
    {JObj([type |-> "aes", key |-> KeyB64(1), iv |-> KeyB64(2)]),
     JObj([type |-> "aes", key |-> KeyB64(1)]),
     JObj([type |-> "aes", iv |-> KeyB64(2)]),
     JObj([type |-> "vigenere"]),
     JObj([type |-> "rsa"]),
     JObj([type |-> "vigenere", key |-> KeyB]),
     JObj([type |-> "vigenere", key |-> KeyNoLetters]),
     JObj([type |-> "rsa", private_key |-> Pem("private", 1)]),
     JObj([type |-> "rsa", private_key |-> Pem("private", 2)]),
     JObj([type |-> "AES", key |-> KeyB64(1), iv |-> KeyB64(2)]),
     JEmptyObj,
     Num(1)}

LayerLists == UNION {[1..k -> LayerChoices] : k \in 1..MaxLayers}

SingleConfigs ==
    {NoConfig, BadJson,
     Json(JEmptyObj),
     Json(JObj([key |-> KeyB64(1), iv |-> KeyB64(2)])),
     Json(JObj([key |-> KeyB64(2), iv |-> KeyB64(1)])),
     Json(JObj([key |-> KeyB])),
     Json(JObj([key |-> Num(5)])),
     Json(JObj([private_key |-> Pem("private", 1)])),
     Json(JObj([private_key |-> Pem("public", 1)])),
     Json(JObj([layers |-> JList(<<>>), key |-> KeyB])),
     Json(JObj([layers |-> Str(<<97>>), key |-> KeyB])),
     Json(JList(<<>>)),
     Json(JList(<<JObj([type |-> "vigenere", key |-> KeyB])>>)),
     Json(Num(5)),
     Json(None)}

\* config.py 29 ENCRYPTION_TYPES, and "" for the column left NULL
EncryptionTypes == {"aes", "vigenere", "rsa", ""}

\* "a", " a" and "_"
CryptoFlags == {<<97>>, <<32, 97>>, <<95>>}

CryptoChallenges ==
    {Challenge(7, "Cryptography", flag, blob, et, cfg) :
        flag \in CryptoFlags, blob \in Blobs, et \in EncryptionTypes,
        cfg \in SingleConfigs}
    \cup
    {Challenge(7, "Cryptography", flag, blob, et,
               Json(JObj([layers |-> JList(ls)]))) :
        flag \in {<<97>>}, blob \in Blobs \ {Str(<<>>)},
        et \in {"aes", ""}, ls \in LayerLists}

\* Tokens submitted to the cipher challenges: "Flag{7_a}", "Flag{7_a }",
\* "Flag{7__}", "Flag{7_b}", "Flag{8_a}", "Flag{7a}", "Flag{7_a"
CryptoTokens ==
    {FlagPrefix \o <<55, 95, 97>> \o FlagSuffix,
     FlagPrefix \o <<55, 95, 97, 32>> \o FlagSuffix,
     FlagPrefix \o <<55, 95, 95>> \o FlagSuffix,
     FlagPrefix \o <<55, 95, 98>> \o FlagSuffix,
     FlagPrefix \o <<56, 95, 97>> \o FlagSuffix,
     FlagPrefix \o <<55, 97>> \o FlagSuffix,
     FlagPrefix \o <<55, 95, 97>>}

NotRun == Outcome(FALSE, FALSE, "not_run", <<>>, FALSE, <<>>, None, FALSE)
Idle == [phase |-> "idle"]
\* current_app before any request: the attribute challenge_id_for_log is not
\* there (hasattr is False)
NoAttr == [has |-> FALSE, challenge_id_for_log |-> 0]

----------------------------------------------------------------------------
(* The verification specification: a challenge and a submitted string are  *)
(* drawn, and the handler is called on them.                               *)

Init ==
    /\ \/ challenge \in PlainChallenges /\ submitted_solution \in Tokens
       \/ challenge \in CryptoChallenges /\ submitted_solution \in CryptoTokens
    /\ result = NotRun
    /\ cipher = Idle
    /\ author = Idle
    /\ call = Idle
    /\ current_app = NoAttr
    /\ requests = <<>>
    /\ page = Idle
    /\ db = Idle

Verify ==
    /\ result.path = "not_run"
    /\ result' = verify_challenge_solution(submitted_solution, challenge)
    /\ UNCHANGED <<challenge, submitted_solution, cipher, author, call, current_app, requests, page, db>>

Next == Verify

Spec == Init /\ [][Next]_vars

----------------------------------------------------------------------------
(* What the claims speak of, stated on the submitted string itself and not *)
(* through the operators of the handler.                                   *)

Ran == result.path # "not_run"

\* the submitted string without its leading and trailing whitespace
Trimmed(s) ==
    LET keep == {i \in 1..Len(s) : s[i] \notin Whitespace}
    IN  IF keep = {} THEN <<>> ELSE SubSeq(s, Min(keep), Max(keep))

Token == Trimmed(submitted_solution)
HasFlagShape ==
    LET t == Token
    IN  /\ Len(t) >= 6
        /\ SubSeq(t, 1, 5) = <<70, 108, 97, 103, 123>>
        /\ t[Len(t)] = 125
\* what stands between "Flag{" and "}"
Inner == LET t == Token IN SubSeq(t, 6, Len(t) - 1)
HasUnderscore == HasFlagShape /\ \E i \in 1..Len(Inner) : Inner[i] = 95
FirstUnderscore == Min({i \in 1..Len(Inner) : Inner[i] = 95})
IdPart == SubSeq(Inner, 1, FirstUnderscore - 1)
PayloadPart == SubSeq(Inner, FirstUnderscore + 1, Len(Inner))

\* the text is an optionally signed decimal integer, as int() accepts it
IsIntegerText(s) ==
    LET u == Trimmed(s)
        d == IF u # <<>> /\ u[1] \in {43, 45} THEN SubSeq(u, 2, Len(u)) ELSE u
    IN  d # <<>> /\ \A i \in 1..Len(d) : d[i] \in 48..57

\* its value, for the one- and two-digit texts the model draws
RECURSIVE Pow10(_)
Pow10(n) == IF n = 0 THEN 1 ELSE 10 * Pow10(n - 1)
IntegerValue(s) ==
    LET u == Trimmed(s)
        neg == u # <<>> /\ u[1] = 45
        d == IF u # <<>> /\ u[1] \in {43, 45} THEN SubSeq(u, 2, Len(u)) ELSE u
        Sum[k \in 0..Len(d)] ==
            IF k = 0 THEN 0
            ELSE Sum[k - 1] + (d[k] - 48) * Pow10(Len(d) - k)
    IN  IF neg THEN 0 - Sum[Len(d)] ELSE Sum[Len(d)]

WellFormed == HasUnderscore /\ IsIntegerText(IdPart)
Bound == WellFormed /\ challenge.present /\ IntegerValue(IdPart) = challenge.id

\* C1: a token whose id differs from challenge.id is rejected whatever its
\* payload is, by the identity check; a token whose id equals challenge.id
\* is not rejected by the identity check.
C1_TokenBinding ==
    (Ran /\ WellFormed /\ challenge.present) =>
        IF IntegerValue(IdPart) # challenge.id
        THEN ~result.verdict /\ ~result.raised /\ result.path = "id_mismatch"
        ELSE result.path # "id_mismatch"

\* C1 witness: a token bound to another challenge carries the stored flag
\* of this one and has been rejected.
C1_Witness ==
    /\ Ran /\ WellFormed /\ challenge.present
    /\ IntegerValue(IdPart) # challenge.id
    /\ Trimmed(PayloadPart) = Trimmed(challenge.flag)
    /\ result.path = "id_mismatch"

C3_MalformedRejected ==
    (Ran /\ ~WellFormed) => (~result.verdict /\ ~result.raised)

\* C3 witness: each of the four defects has been submitted and rejected
\* (one state per defect; this one is the id that is not an integer).
C3_Witness ==
    /\ Ran /\ challenge.present /\ HasUnderscore /\ ~IsIntegerText(IdPart)
    /\ Trimmed(PayloadPart) = Trimmed(challenge.flag)
    /\ ~result.verdict

\* C4: for a challenge outside the Cryptography category and a well-formed
\* token bound to its id, the verdict is True exactly when the trimmed
\* payload equals the trimmed stored flag.
C4_NonCryptoLiteral ==
    (Ran /\ challenge.category # "Cryptography" /\ Bound) =>
        /\ ~result.raised
        /\ result.verdict <=> (Trimmed(PayloadPart) = Trimmed(challenge.flag))

\* C4 witness: accepted although payload and flag differ before trimming.
C4_Witness ==
    /\ Ran /\ Bound /\ challenge.category # "Cryptography"
    /\ result.verdict
    /\ PayloadPart # challenge.flag

\* C5: the handler never raises to its caller.
C5_NeverRaises == ~result.raised

\* C6: on the layered path, True only if every layer was inverted and the
\* trimmed final plaintext equals the trimmed flag, and so does the trimmed
\* payload.
C6_LayeredFinalComparison ==
    (Ran /\ result.path = "layered" /\ result.verdict) =>
        /\ Len(result.calls) = Len(challenge.config_json.doc.m.layers.items)
        /\ \A i \in 1..Len(result.calls) : result.calls[i].output.t # "None"
        /\ result.final.t = "str"
        /\ Trimmed(result.final.s) = Trimmed(challenge.flag)
        /\ Trimmed(PayloadPart) = Trimmed(challenge.flag)

\* C7: on the single-layer path, the inverse is called once and True is
\* returned only if it succeeded and the trimmed inverted text equals the
\* trimmed flag and the trimmed payload.
C7_SingleFinalComparison ==
    (Ran /\ result.path = "single" /\ result.verdict) =>
        /\ Len(result.calls) = 1
        /\ result.calls[1].output.t # "None"
        /\ result.final.t = "str"
        /\ Trimmed(result.final.s) = Trimmed(challenge.flag)
        /\ Trimmed(PayloadPart) = Trimmed(challenge.flag)

\* the layers list of the stored configuration, when the handler took the
\* layered path
OnLayeredPath ==
    /\ Ran /\ challenge.category = "Cryptography"
    /\ challenge.config_json.c = "json"
    /\ "j" \in DOMAIN challenge.config_json.doc
    /\ challenge.config_json.doc.j = "obj"
    /\ "layers" \in DOMAIN challenge.config_json.doc.m
    /\ "j" \in DOMAIN challenge.config_json.doc.m.layers
    /\ challenge.config_json.doc.m.layers.j = "list"
    /\ challenge.config_json.doc.m.layers.items # <<>>
    /\ Bound
StoredLayers == challenge.config_json.doc.m.layers.items
IsRecordLayer(l) == "j" \in DOMAIN l /\ l.j \in {"obj", "obj0"}
TagOf(l) == IF l.j = "obj" /\ "type" \in DOMAIN l.m THEN l.m.type ELSE ""
Holds(l, k) == l.j = "obj" /\ k \in DOMAIN l.m

\* layer l lacks a key its algorithm requires
LacksRequiredKey(l) ==
    /\ IsRecordLayer(l)
    /\ \/ TagOf(l) = "aes" /\ (~Holds(l, "key") \/ ~Holds(l, "iv"))
       \/ TagOf(l) = "vigenere" /\ ~Holds(l, "key")
       \/ TagOf(l) = "rsa" /\ ~Holds(l, "private_key")

\* C11: on the layered path a layer that lacks a key its algorithm requires
\* makes the verdict False, and no inverse is called for that layer or for
\* any layer after it.  (The handler returns that verdict without raising
\* when every layer in front of it is a JSON object.)
C11_MissingKeyStops ==
    OnLayeredPath =>
        \A i \in 1..Len(StoredLayers) :
            LacksRequiredKey(StoredLayers[i]) =>
                /\ ~result.verdict
                /\ \A c \in 1..Len(result.calls) : result.calls[c].layer < i
                /\ (\A j \in 1..(i - 1) : IsRecordLayer(StoredLayers[j]))
                      => ~result.raised

\* C11 witness: the first layer was inverted, the second is an aes layer
\* without iv, the payload is the stored flag, and the verdict is False.
C11_Witness ==
    /\ OnLayeredPath
    /\ Len(StoredLayers) = 2
    /\ IsRecordLayer(StoredLayers[2])
    /\ TagOf(StoredLayers[2]) = "aes" /\ ~Holds(StoredLayers[2], "iv")
    /\ Len(result.calls) = 1 /\ result.calls[1].output.t # "None"
    /\ Trimmed(PayloadPart) = Trimmed(challenge.flag)
    /\ ~result.verdict /\ ~result.raised

\* C12: on the layered path the inverses are called layer by layer from the
\* first; a call that returns the failure value is the last one and the
\* verdict is False; a layer whose tag is none of aes, vigenere, rsa gets no
\* call, nor does any layer after it, and the verdict is False.
C12_ShortCircuit ==
    OnLayeredPath =>
        /\ \A c \in 1..Len(result.calls) :
              /\ result.calls[c].layer = c
              /\ result.calls[c].output.t = "None" =>
                    (c = Len(result.calls) /\ ~result.verdict
                     /\ ~result.raised)
        /\ \A i \in 1..Len(StoredLayers) :
              (IsRecordLayer(StoredLayers[i])
               /\ TagOf(StoredLayers[i]) \notin {"aes", "vigenere", "rsa"}) =>
                  /\ ~result.verdict
                  /\ \A c \in 1..Len(result.calls) : result.calls[c].layer < i
                  /\ (\A j \in 1..(i - 1) : IsRecordLayer(StoredLayers[j]))
                        => ~result.raised

\* C12 witness: the inverse of the first of two layers failed, the second
\* layer has everything its algorithm requires, the payload is the stored
\* flag, and the verdict is False after that one call.
C12_Witness ==
    /\ OnLayeredPath
    /\ Len(StoredLayers) = 2
    /\ Len(result.calls) = 1 /\ result.calls[1].output.t = "None"
    /\ IsRecordLayer(StoredLayers[2])
    /\ TagOf(StoredLayers[2]) \in {"aes", "vigenere", "rsa"}
    /\ ~LacksRequiredKey(StoredLayers[2])
    /\ Trimmed(PayloadPart) = Trimmed(challenge.flag)
    /\ ~result.verdict /\ ~result.raised

\* the stored configuration holds a non-empty layers list
ConfigHasLayers ==
    /\ challenge.present
    /\ challenge.config_json.c = "json"
    /\ "j" \in DOMAIN challenge.config_json.doc
    /\ challenge.config_json.doc.j = "obj"
    /\ "layers" \in DOMAIN challenge.config_json.doc.m
    /\ "j" \in DOMAIN challenge.config_json.doc.m.layers
    /\ challenge.config_json.doc.m.layers.j = "list"
    /\ challenge.config_json.doc.m.layers.items # <<>>

\* C15: when the configuration holds a non-empty layers list, the same
\* token submitted to a challenge that differs only in encryption_type gets
\* the same outcome, whatever that encryption_type is.
C15_LayersIgnoreEncryptionType ==
    (Ran /\ ConfigHasLayers) =>
        \A et \in EncryptionTypes \cup {"layered"} :
            LET twin == verify_challenge_solution(submitted_solution,
                            [challenge EXCEPT !.encryption_type = et])
            IN  /\ twin.verdict = result.verdict
                /\ twin.raised = result.raised

\* C15 witness: a challenge stored with encryption_type 'aes' and a single
\* vigenere layer was verified True.
C15_Witness ==
    /\ Ran /\ ConfigHasLayers /\ Bound
    /\ challenge.encryption_type = "aes"
    /\ Len(StoredLayers) = 1
    /\ IsRecordLayer(StoredLayers[1]) /\ TagOf(StoredLayers[1]) = "vigenere"
    /\ result.verdict

RepresentationClass(fn) == IF fn = "vigenere" THEN "raw" ELSE "base64"

\* The one conversion the statement puts between two layers of different
\* class: the base64 text decoded to raw text before a vigenere layer, the
\* raw text encoded to base64 before an aes or rsa layer.
ConvertedFor(fn, text) ==
    IF fn = "vigenere"
    THEN LET decoded == b64decode(text)
         IN  IF decoded.ok THEN decode_utf8(decoded.bytes).text ELSE None
    ELSE B64(Enc(text))

\* C20: of two inverses called one after the other on the layered path,
\* the second is given the output of the first converted once when their
\* representation classes differ, and that output as it is when they are
\* of the same class.
C20_OneConversionBetweenClasses ==
    (Ran /\ result.path = "layered") =>
        \A i \in 1..(Len(result.calls) - 1) :
            LET before == result.calls[i]
                after == result.calls[i + 1]
            IN  after.input =
                    IF RepresentationClass(before.fn) # RepresentationClass(after.fn)
                    THEN ConvertedFor(after.fn, before.output)
                    ELSE before.output

C22_ChecksBeforeCrypto ==
    (Ran /\ ~Bound) =>
        /\ ~result.json_loaded
        /\ result.calls = <<>>

\* C22 witness: a well-formed token for another id was rejected on a cipher
\* challenge whose configuration and data would have been worked on.
C22_Witness ==
    /\ Ran /\ WellFormed /\ ~Bound
    /\ result.path = "id_mismatch"
    /\ challenge.category = "Cryptography"
    /\ challenge.encryption_type = "vigenere"
    /\ challenge.challenge_data = VigBlob
    /\ challenge.config_json = Json(JObj([key |-> KeyB]))
    /\ ~result.json_loaded /\ result.calls = <<>>

\* C26: a True verdict is only given to a token of the shape
\* Flag{<integer>_<payload>} whose integer is challenge.id and whose
\* trimmed payload is the trimmed stored flag, on every path.
C26_TrueNeedsIdAndAnswer ==
    (Ran /\ result.verdict) =>
        /\ ~result.raised
        /\ Bound
        /\ Trimmed(PayloadPart) = Trimmed(challenge.flag)

\* C26 witness: a layered challenge was verified True for a payload that
\* differs from the stored flag by whitespace only.
C26_Witness ==
    /\ Ran /\ result.verdict /\ result.path = "layered"
    /\ Bound
    /\ PayloadPart # challenge.flag
    /\ Trimmed(PayloadPart) = Trimmed(challenge.flag)

----------------------------------------------------------------------------
(* tool.py: the forward operations *)

\* RSA.generate(2048): the modulus is 256 bytes long
RsaKeyBytes == 256
\* "OAEP padding size" subtracted from it (tool.py 119, ltool.py 104)
OaepOverhead == 42
\* AES.block_size
AesBlock == 16
\* length of the Vigenere key tool.py draws when none is given
ToolKeyLen == 8

\* UTF-8 length of one character
CharBytes(c) == IF c < 128 THEN 1 ELSE 2

\* len(text.encode('utf-8'))
TextBytes(s) == Len(s) + Cardinality({i \in 1..Len(s) : CharBytes(s[i]) = 2})

\* len() of a bytes value, and of the UTF-8 bytes of a str value
RECURSIVE ByteLen(_)
ByteLen(b) ==
    CASE b.t = "enc" ->
           (CASE b.of.t = "str" -> TextBytes(b.of.s)
              [] b.of.t = "b64" -> 4 * ((ByteLen(b.of.b) + 2) \div 3)
              [] b.of.t = "shifted" -> ByteLen(Enc(b.of.base))
              [] b.of.t = "prefix" -> b.of.n
              [] OTHER -> 0)
      [] b.t = "padded" -> AesBlock * ((ByteLen(b.p) \div AesBlock) + 1)
      [] b.t = "aesct" -> ByteLen(b.cpt)
      [] b.t = "rsact" -> RsaKeyBytes
      [] b.t = "rand16" -> 16
      [] OTHER -> 0

\* the longest prefix of the text s that fits in n bytes
TextPrefix(s, n) ==
    SubSeq(s, 1, Max({k \in 0..Len(s) : TextBytes(SubSeq(s, 1, k)) <= n}))

\* A variant of the cut that keeps everything.
Truncate_nothing(b, n) == b

\* data[:n] on bytes.  Cutting the UTF-8 bytes of a text inside a two-byte
\* character leaves bytes that no longer decode.
Truncate(b, n) ==
    IF ByteLen(b) <= n THEN b
    ELSE IF b.t = "enc" /\ b.of.t = "str"
    THEN IF TextBytes(TextPrefix(b.of.s, n)) = n
         THEN Enc(Str(TextPrefix(b.of.s, n)))
         ELSE Garbage
    ELSE IF b.t = "enc"
    THEN Enc([t |-> "prefix", of |-> b.of, n |-> n])
    ELSE Garbage

\* tool.py aes_encrypt; key and iv are the bytes given, or None, and rnd
\* the pair get_random_bytes would then draw.
aes_encrypt(plaintext, key, iv, rnd) ==
    LET k == IF key.t = "None" THEN Rand16(rnd[1]) ELSE key
        v == IF iv.t = "None" THEN Rand16(rnd[2]) ELSE iv
        padded_plaintext == Padded(Enc(plaintext))
        ciphertext == AesCt(k.id, v.id, padded_plaintext)
    IN  [ciphertext_b64 |-> B64(ciphertext),
         key_b64 |-> B64(k),
         iv_b64 |-> B64(v)]

\* A variant of the loop that moves the key index on every character.
RECURSIVE vigenere_encrypt_loop_every(_, _, _, _)
vigenere_encrypt_loop_every(plaintext, key, key_index, ciphertext) ==
    IF plaintext = <<>> THEN ciphertext
    ELSE LET char == Head(plaintext)
             shift == key[(key_index % Len(key)) + 1] - 65
             encrypted_char ==
                 IF ~isalpha(char) THEN char
                 ELSE IF isupper(char)
                 THEN (((char - 65) + shift) % 26) + 65
                 ELSE (((char - 97) + shift) % 26) + 97
         IN  vigenere_encrypt_loop_every(Tail(plaintext), key,
                 key_index + 1, Append(ciphertext, encrypted_char))

\* tool.py 69-86 (and, line for line, ltool.py 60-77)
RECURSIVE vigenere_encrypt_loop(_, _, _, _)
vigenere_encrypt_loop(plaintext, key, key_index, ciphertext) ==
    IF plaintext = <<>> THEN ciphertext
    ELSE LET char == Head(plaintext)
         IN  IF isalpha(char)
             THEN LET shift == key[(key_index % Len(key)) + 1] - 65
                      encrypted_char ==
                          IF isupper(char)
                          THEN (((char - 65) + shift) % 26) + 65
                          ELSE (((char - 97) + shift) % 26) + 97
                  IN  vigenere_encrypt_loop(Tail(plaintext), key,
                          key_index + 1, Append(ciphertext, encrypted_char))
             ELSE vigenere_encrypt_loop(Tail(plaintext), key,
                      key_index, Append(ciphertext, char))

\* "DEFAULTKEY"
DefaultKey == <<68, 69, 70, 65, 85, 76, 84, 75, 69, 89>>

\* tool.py vigenere_encrypt; key is the text given, or None, and rnd the
\* letters secrets.choice would then draw.
vigenere_encrypt(plaintext, key, rnd) ==
    LET given == IF key.t = "None" THEN rnd ELSE key.s
        clean == normalize_key(given)
        k == IF clean = <<>> THEN DefaultKey ELSE clean
    IN  [ciphertext |-> Str(vigenere_encrypt_loop(plaintext.s, k, 0, <<>>)),
         key |-> Str(k),
         iv |-> None]

\* tool.py generate_rsa_key_pair; n names the pair RSA.generate draws
generate_rsa_key_pair(n) ==
    [private_key |-> Pem("private", n), public_key |-> Pem("public", n)]

\* tool.py rsa_encrypt; ok = FALSE is the None it returns on an exception
rsa_encrypt(plaintext, public_key_str) ==
    IF public_key_str.t # "pem"
    THEN [ok |-> FALSE, ciphertext_b64 |-> None, public_key_str |-> public_key_str]
    ELSE LET max_size == RsaKeyBytes - OaepOverhead
             data == Truncate(Enc(plaintext), max_size)
         IN  [ok |-> TRUE,
              ciphertext_b64 |-> B64(RsaCt(public_key_str.pair, data)),
              public_key_str |-> public_key_str]

----------------------------------------------------------------------------
(* ltool.py: the forward operations of the layer composer *)

\* length of the Vigenere key ltool.py draws
LayerKeyLen == 10

\* data_to_encrypt.encode('utf-8') when it is a str
ToBytes(v) == IF IsStrValue(v) THEN Enc(v) ELSE v

\* ltool.py aes_encrypt_layer; rnd is the pair get_random_bytes draws
aes_encrypt_layer(data_to_encrypt, rnd) ==
    LET data == ToBytes(data_to_encrypt)
        ciphertext == AesCt(rnd[1], rnd[2], Padded(data))
    IN  [output_data |-> B64(ciphertext),
         layer_config |-> JObj([key_b64 |-> B64(Rand16(rnd[1])),
                                iv_b64 |-> B64(Rand16(rnd[2]))])]

\* ltool.py vigenere_encrypt_layer; rnd is the ten letters secrets.choice
\* draws.  The text is a str here: the caller has converted bytes.
vigenere_encrypt_layer(data_to_encrypt, rnd) ==
    LET clean == normalize_key(rnd)
        key == IF clean = <<>> THEN <<75, 69, 89>> ELSE clean
        ciphertext ==
            IF data_to_encrypt.t = "str"
            THEN Str(vigenere_encrypt_loop(data_to_encrypt.s, key, 0, <<>>))
            ELSE IF ZeroKey(key) THEN data_to_encrypt
            ELSE IF data_to_encrypt.t = "shifted"
                    /\ data_to_encrypt.dir = "dec"
                    /\ data_to_encrypt.sk = key
            THEN data_to_encrypt.base
            ELSE Shifted(data_to_encrypt, key, "enc")
    IN  [output_data |-> ciphertext,
         layer_config |-> JObj([key |-> Str(key)])]

\* ltool.py rsa_encrypt_layer; pair names the key pair RSA.generate draws
rsa_encrypt_layer(data_to_encrypt, pair) ==
    LET data == ToBytes(data_to_encrypt)
        max_size == RsaKeyBytes - OaepOverhead
        ciphertext == RsaCt(pair, Truncate(data, max_size))
    IN  [output_data |-> B64(ciphertext),
         layer_config |-> JObj([public_key |-> Pem("public", pair),
                                private_key |-> Pem("private", pair)])]

----------------------------------------------------------------------------
(* The cipher specification: a text is drawn, one forward operation of     *)
(* tool.py (or the Vigenere layer of ltool.py) is applied to it, and the   *)
(* inverse of app/utils.py is applied to the result.                       *)

\* longest text drawn
MaxTextLen == 3
\* longest Vigenere key typed in
MaxKeyLen == 2

\* 'a', 'Z', ' ', '!', and 233 (e acute)
TextAlphabet == {97, 90, 32, 33, 233}
\* one text longer than an RSA block can carry, besides the short ones
LongText == [i \in 1..(RsaKeyBytes - OaepOverhead + 1) |-> 97]
\* the scripts refuse an empty plaintext (tool.py 144, ltool.py 131)
Texts == SeqsUpTo(TextAlphabet, MaxTextLen) \ {<<>>}
\* another one, whose byte number max_size + 1 is the second byte of its
\* last character
LongTextSplit == [i \in 1..(RsaKeyBytes - OaepOverhead) |->
                     IF i = RsaKeyBytes - OaepOverhead THEN 233 ELSE 97]

\* 'B', 'c', '1', and 233
KeyAlphabet == {66, 99, 49, 233}
TypedKeys == SeqsUpTo(KeyAlphabet, MaxKeyLen)

\* keys secrets.choice can draw: one letter repeated, or a run of the
\* alphabet starting at it
DrawnKeys(n) ==
    {[i \in 1..n |-> c] : c \in {97, 98, 122}}
    \cup {[i \in 1..n |-> 97 + ((c + i) % 26)] : c \in {0, 20}}

\* names of the random AES keys, IVs and RSA key pairs
KeyNames == {1, 2}

\* plaintext, the ciphertext and parameters the forward operation returned,
\* the key the inverse was then given (dkey), what it returned, and whether
\* it was given the returned parameters (matching)
CipherState(phase, alg, plaintext, ciphertext, key, iv, decrypted, matching) ==
    [phase |-> phase, alg |-> alg, plaintext |-> plaintext,
     ciphertext |-> ciphertext, key |-> key, iv |-> iv, dkey |-> None,
     decrypted |-> decrypted, matching |-> matching]

InitCipher ==
    /\ cipher = CipherState("input", "", None, None, None, None, None, FALSE)
    /\ challenge = NoChallenge
    /\ submitted_solution = <<>>
    /\ result = NotRun
    /\ author = Idle
    /\ call = Idle
    /\ current_app = NoAttr
    /\ requests = <<>>
    /\ page = Idle
    /\ db = Idle

Others == <<challenge, submitted_solution, result, author, call, current_app, requests, page, db>>

AesEncrypt ==
    /\ cipher.phase = "input"
    /\ \E x \in Texts \cup {LongText}, k \in KeyNames, v \in KeyNames :
          LET r == aes_encrypt(Str(x), None, None, <<k, v>>)
          IN  cipher' = CipherState("encrypted", "aes", Str(x),
                            r.ciphertext_b64, r.key_b64, r.iv_b64, None, FALSE)
    /\ UNCHANGED Others

VigenereEncrypt ==
    /\ cipher.phase = "input"
    /\ \E x \in Texts,
          key \in {Str(k) : k \in TypedKeys} \cup {None},
          rnd \in DrawnKeys(ToolKeyLen) :
          LET r == vigenere_encrypt(Str(x), key, rnd)
          IN  cipher' = CipherState("encrypted", "vigenere", Str(x),
                            r.ciphertext, r.key, None, None, FALSE)
    /\ UNCHANGED Others

VigenereEncryptLayer ==
    /\ cipher.phase = "input"
    /\ \E x \in Texts, rnd \in DrawnKeys(LayerKeyLen) :
          LET r == vigenere_encrypt_layer(Str(x), rnd)
          IN  cipher' = CipherState("encrypted", "vigenere", Str(x),
                            r.output_data, r.layer_config.m.key, None, None,
                            FALSE)
    /\ UNCHANGED Others

RsaEncrypt ==
    /\ cipher.phase = "input"
    /\ \E x \in Texts \cup {LongText, LongTextSplit}, n \in KeyNames :
          LET key_pair == generate_rsa_key_pair(n)
              r == rsa_encrypt(Str(x), key_pair.public_key)
          IN  /\ r.ok
              /\ cipher' = CipherState("encrypted", "rsa", Str(x),
                               r.ciphertext_b64, key_pair.private_key, None,
                               None, FALSE)
    /\ UNCHANGED Others

RsaEncryptLayer ==
    /\ cipher.phase = "input"
    /\ \E x \in Texts \cup {LongText, LongTextSplit}, n \in KeyNames :
          LET r == rsa_encrypt_layer(Enc(Str(x)), n)
          IN  cipher' = CipherState("encrypted", "rsa", Str(x),
                            r.output_data, r.layer_config.m.private_key,
                            None, None, FALSE)
    /\ UNCHANGED Others

AesDecrypt ==
    /\ cipher.phase = "encrypted" /\ cipher.alg = "aes"
    /\ \E k \in {cipher.key} \cup {KeyB64(n) : n \in KeyNames},
          v \in {cipher.iv} \cup {KeyB64(n) : n \in KeyNames} :
          cipher' = [cipher EXCEPT
                        !.phase = "decrypted",
                        !.dkey = k,
                        !.decrypted = aes_decrypt(cipher.ciphertext, k, v),
                        !.matching = (k = cipher.key /\ v = cipher.iv)]
    /\ UNCHANGED Others

VigenereDecrypt ==
    /\ cipher.phase = "encrypted" /\ cipher.alg = "vigenere"
    /\ \E k \in {cipher.key, KeyB, KeyNoLetters} :
          cipher' = [cipher EXCEPT
                        !.phase = "decrypted",
                        !.dkey = k,
                        !.decrypted = vigenere_decrypt(cipher.ciphertext, k),
                        !.matching = (k = cipher.key)]
    /\ UNCHANGED Others

RsaDecrypt ==
    /\ cipher.phase = "encrypted" /\ cipher.alg = "rsa"
    /\ \E k \in {Pem(kind, n) : kind \in {"private", "public"}, n \in KeyNames} :
          cipher' = [cipher EXCEPT
                        !.phase = "decrypted",
                        !.dkey = k,
                        !.decrypted = rsa_decrypt(cipher.ciphertext, k),
                        !.matching = (k = cipher.key)]
    /\ UNCHANGED Others

NextCipher ==
    \/ AesEncrypt
    \/ VigenereEncrypt
    \/ VigenereEncryptLayer
    \/ RsaEncrypt
    \/ RsaEncryptLayer
    \/ AesDecrypt
    \/ VigenereDecrypt
    \/ RsaDecrypt

SpecCipher == InitCipher /\ [][NextCipher]_vars

----------------------------------------------------------------------------
(* Claims about the cipher library *)

\* what Python's str.isalpha / str.isupper say of the characters drawn
Alphabetic(c) == c \in (65..90) \cup (97..122) \cup {201, 233}
UpperCase(c) == c \in (65..90) \cup {201}
LettersBefore(s, i) == Cardinality({j \in 1..(i - 1) : Alphabetic(s[j])})

\* out is in with every non-letter in place and the k-th letter (counting
\* letters only, from 0) moved by key letter k mod Len(key), forward when
\* sign = 1 and backward when sign = -1
ShiftedByKey(in, out, key, sign) ==
    /\ Len(out) = Len(in)
    /\ \A i \in 1..Len(in) :
          IF ~Alphabetic(in[i]) THEN out[i] = in[i]
          ELSE LET k == LettersBefore(in, i)
                   shift == key[(k % Len(key)) + 1] - 65
                   base == IF UpperCase(in[i]) THEN 65 ELSE 97
               IN  out[i] = base + ((in[i] - base + sign * shift) % 26)

\* the payload fits the algorithm's size limit
WithinLimit ==
    cipher.alg = "rsa" =>
        Len(cipher.plaintext.s)
        + Cardinality({i \in 1..Len(cipher.plaintext.s) :
                          cipher.plaintext.s[i] >= 128}) <= 214

\* C9: for each algorithm, decrypting what the forward operation returned
\* with the parameters it returned gives back the payload.
C9_RoundTrip ==
    (cipher.phase = "decrypted" /\ cipher.matching /\ WithinLimit) =>
        cipher.decrypted = cipher.plaintext

\* C10: in vigenere_encrypt, vigenere_encrypt_layer and vigenere_decrypt a
\* non-alphabetic character stays where it is and does not use up a key
\* letter: the k-th alphabetic character is shifted by key letter
\* k mod Len(key).
C10_NonLetterPassthrough ==
    /\ (cipher.phase \in {"encrypted", "decrypted"} /\ cipher.alg = "vigenere")
          => ShiftedByKey(cipher.plaintext.s, cipher.ciphertext.s,
                          cipher.key.s, 1)
    /\ (cipher.phase = "decrypted" /\ cipher.alg = "vigenere"
        /\ cipher.decrypted.t # "None")
          => ShiftedByKey(cipher.ciphertext.s, cipher.decrypted.s,
                          normalize_key(cipher.dkey.s), -1)

\* C10 witness: a text with a non-letter ahead of a letter went through
\* encryption and decryption under a key whose first two letters differ.
C10_Witness ==
    /\ cipher.phase = "decrypted" /\ cipher.alg = "vigenere"
    /\ cipher.matching
    /\ Len(cipher.key.s) >= 2 /\ cipher.key.s[1] # cipher.key.s[2]
    /\ \E i, j \in 1..Len(cipher.plaintext.s) :
          /\ i < j
          /\ ~Alphabetic(cipher.plaintext.s[i])
          /\ Alphabetic(cipher.plaintext.s[j])
          /\ cipher.plaintext.s[i] = cipher.decrypted.s[i]

\* UTF-8 length of the payload, the number of its characters that fit in the
\* 214 bytes an RSA block carries, and whether those fill the 214 bytes
PayloadBytes ==
    Len(cipher.plaintext.s)
    + Cardinality({i \in 1..Len(cipher.plaintext.s) :
                      cipher.plaintext.s[i] >= 128})
FittingChars ==
    Max({k \in 0..Len(cipher.plaintext.s) :
            k + Cardinality({i \in 1..k : cipher.plaintext.s[i] >= 128})
                <= 214})
CutBetweenChars ==
    FittingChars
    + Cardinality({i \in 1..FittingChars : cipher.plaintext.s[i] >= 128})
        = 214
Oversized ==
    cipher.phase \in {"encrypted", "decrypted"} /\ cipher.alg = "rsa"
    /\ PayloadBytes > 214

\* C14 as stated: an oversized payload is encrypted all the same, and
\* rsa_decrypt with the matching private key returns its prefix of
\* max_size bytes, which is not the payload.
C14_TruncatedPrefix ==
    Oversized =>
        /\ cipher.ciphertext.t = "b64" /\ cipher.ciphertext.b.t = "rsact"
        /\ (cipher.phase = "decrypted" /\ cipher.matching) =>
              /\ cipher.decrypted # cipher.plaintext
              /\ cipher.decrypted =
                    Str(SubSeq(cipher.plaintext.s, 1, FittingChars))

\* C14, amended: an oversized payload is encrypted all the same; rsa_decrypt
\* with the matching private key never returns the payload: it returns the
\* prefix of max_size bytes when the cut falls between two characters, and
\* None when the cut falls inside a multi-byte character.
C14_TruncatedNotRejected ==
    Oversized =>
        /\ cipher.ciphertext.t = "b64" /\ cipher.ciphertext.b.t = "rsact"
        /\ (cipher.phase = "decrypted" /\ cipher.matching) =>
              /\ cipher.decrypted # cipher.plaintext
              /\ cipher.decrypted =
                    IF CutBetweenChars
                    THEN Str(SubSeq(cipher.plaintext.s, 1, FittingChars))
                    ELSE None

\* C14 witness: a payload of max_size + 1 bytes was encrypted under RSA
\* and came back one character short.
C14_Witness ==
    /\ Oversized /\ cipher.phase = "decrypted" /\ cipher.matching
    /\ cipher.decrypted.t = "str"
    /\ Len(cipher.decrypted.s) = Len(cipher.plaintext.s) - 1

----------------------------------------------------------------------------
(* ltool.py run_layered_encryption_script, the admin form that stores what *)
(* it printed, and a player's submission of Flag{<id>_<plaintext>}.        *)

\* most layers typed in before 'done'
MaxAuthorLayers == 3
\* longest plaintext typed in
MaxSecretLen == 2

\* 'a', 'Z', 'a', 'a': four characters of the base64 alphabet
FourLetters == <<97, 90, 97, 97>>
Secrets == {x \in Texts : Len(x) <= MaxSecretLen} \cup {FourLetters}

\* ltool.py 167: base64.b64decode(current_data).decode('utf-8',
\* errors='ignore') on the bytes of the typed plaintext.  Characters outside
\* the base64 alphabet are discarded; the rest must come in fours, or
\* b64decode raises.  Four characters give at most three bytes, so the text
\* that comes out is shorter than the one that went in.
decode_plain_as_base64(current_data) ==
    LET text == current_data.of.s
        n == Cardinality({i \in 1..Len(text) : text[i] \in Base64Alphabet})
    IN  IF n % 4 # 0 THEN [ok |-> FALSE, text |-> None]
        ELSE IF n = 0 THEN [ok |-> TRUE, text |-> Str(<<>>)]
        ELSE [ok |-> TRUE, text |-> [t |-> "garbled", of |-> text]]

\* the script's local variables; phase is its position:
\*   "start" before the plaintext prompt, "layering" at a layer prompt,
\*   "exited" after an early return, "aborted" after a failed layer,
\*   "printed" after the results were printed, "stored" once the admin
\*   form has saved them, "verified" after a submission was verified
AuthorState(phase, original_plaintext, current_data, layer_details, layer_number) ==
    [phase |-> phase, original_plaintext |-> original_plaintext,
     current_data |-> current_data, layer_details |-> layer_details,
     layer_number |-> layer_number, final_ciphertext |-> None,
     config_list |-> JList(<<>>), pasted |-> ""]

\* ltool.py 181-186: one entry of layer_details (the preview left out)
LayerDetail(number, type, config) ==
    [number |-> number, type |-> type, config |-> config]

\* ltool.py 228: one entry of config_list
ConfigEntry(layer) ==
    JObj([layer |-> Num(layer.number), type |-> layer.type,
          config |-> layer.config])

InitAuthor ==
    /\ author = AuthorState("start", <<>>, None, <<>>, 1)
    /\ challenge = NoChallenge
    /\ submitted_solution = <<>>
    /\ result = NotRun
    /\ cipher = Idle
    /\ call = Idle
    /\ current_app = NoAttr
    /\ requests = <<>>
    /\ page = Idle
    /\ db = Idle

NotAuthor == <<challenge, submitted_solution, result, cipher, call, current_app, requests, page, db>>

\* ltool.py 130-136
ReadPlaintext ==
    /\ author.phase = "start"
    /\ \E original_plaintext \in Secrets \cup {<<>>} :
          author' =
              IF original_plaintext = <<>>
              THEN [author EXCEPT !.phase = "exited"]
              ELSE AuthorState("layering", original_plaintext,
                               Enc(Str(original_plaintext)), <<>>, 1)
    /\ UNCHANGED NotAuthor

\* ltool.py 181-198: a layer was applied
Applied(type, r) ==
    [author EXCEPT
        !.layer_details = Append(@, LayerDetail(author.layer_number, type,
                                                r.layer_config)),
        !.current_data = r.output_data,
        !.layer_number = @ + 1]

\* A variant of the abort that prints what the layers applied so far gave.
abort_with_partial(a) ==
    [a EXCEPT !.phase = "aborted",
              !.final_ciphertext = a.current_data,
              !.config_list =
                  JList([i \in 1..Len(a.layer_details) |->
                            ConfigEntry(a.layer_details[i])])]

\* ltool.py 176-178, 198-202: the script returns; nothing of lines 204-240
\* is printed
abort_composition(a) == [a EXCEPT !.phase = "aborted"]

\* the layer prompt answered 'aes'
LayerAes ==
    /\ author.phase = "layering"
    /\ author.layer_number <= MaxAuthorLayers
    /\ author' = Applied("AES",
                     aes_encrypt_layer(author.current_data,
                         <<2 * author.layer_number - 1,
                           2 * author.layer_number>>))
    /\ UNCHANGED NotAuthor

\* the layer prompt answered 'vigenere'
LayerVigenere ==
    /\ author.phase = "layering"
    /\ author.layer_number <= MaxAuthorLayers
    /\ \E rnd \in DrawnKeys(LayerKeyLen) :
          IF author.current_data.t = "enc"
          THEN LET text == decode_plain_as_base64(author.current_data)
               IN  author' =
                       IF text.ok
                       THEN Applied("VIGENERE",
                                vigenere_encrypt_layer(text.text, rnd))
                       ELSE abort_composition(author)
          ELSE author' = Applied("VIGENERE",
                             vigenere_encrypt_layer(author.current_data, rnd))
    /\ UNCHANGED NotAuthor

\* the layer prompt answered 'rsa'
LayerRsa ==
    /\ author.phase = "layering"
    /\ author.layer_number <= MaxAuthorLayers
    /\ author' = Applied("RSA",
                     rsa_encrypt_layer(author.current_data,
                                       author.layer_number))
    /\ UNCHANGED NotAuthor

\* The forward operation of the layer asked for fails for a reason outside
\* the script (RSA.generate or the cipher library raising, memory): either
\* rsa_encrypt_layer catches it and returns (None, None), which lines 176-178
\* answer with a return, or it reaches the except of line 198, which
\* returns as well.
LayerFails ==
    /\ author.phase = "layering"
    /\ author.layer_number <= MaxAuthorLayers
    /\ \E layer_type_input \in {"aes", "vigenere", "rsa"},
          failure \in {"returned_none", "raised"} :
          /\ failure = "returned_none" => layer_type_input = "rsa"
          /\ author' = abort_composition(author)
    /\ UNCHANGED NotAuthor

\* the layer prompt answered 'done' (ltool.py 145-149, 207-229)
LayersDone ==
    /\ author.phase = "layering"
    /\ author' =
          IF author.layer_number = 1
          THEN [author EXCEPT !.phase = "exited"]
          ELSE [author EXCEPT
                   !.phase = "printed",
                   !.final_ciphertext = author.current_data,
                   !.config_list =
                       JList([i \in 1..Len(author.layer_details) |->
                                 ConfigEntry(author.layer_details[i])])]
    /\ UNCHANGED NotAuthor

\* One printed record rewritten with the keys verify_challenge_solution
\* reads (utils.py 196-240): lower-case type, "key"/"iv"/"private_key".
Adapted(entry) ==
    LET config == entry.m.config
    IN  CASE entry.m.type = "AES" ->
               JObj([type |-> "aes", key |-> config.m.key_b64,
                     iv |-> config.m.iv_b64])
          [] entry.m.type = "VIGENERE" ->
               JObj([type |-> "vigenere", key |-> config.m.key])
          [] OTHER ->
               JObj([type |-> "rsa", private_key |-> config.m.private_key])

\* What the admin puts in the Configuration field, the layer list in its
\* stored order each time:
\*   "printed"  the JSON list as the script printed it
\*   "wrapped"  that list under the key "layers"
\*   "adapted"  under "layers", each record rewritten with the key names
\*              the verification reads
PasteModes == {"printed", "wrapped", "adapted"}

Pasted(config_list, mode) ==
    CASE mode = "printed" -> Json(config_list)
      [] mode = "wrapped" -> Json(JObj([layers |-> config_list]))
      [] OTHER ->
           Json(JObj([layers |->
               JList([i \in 1..Len(config_list.items) |->
                         Adapted(config_list.items[i])])]))

\* The admin stores the challenge as the script says (ltool.py 231-240):
\* category Cryptography, flag the plaintext, challenge data the final
\* ciphertext, encryption type 'aes'.  The form refuses a blank flag.
StoreChallenge ==
    /\ author.phase = "printed"
    /\ strip(author.original_plaintext) # <<>>
    /\ \E id \in ChallengeIds, mode \in PasteModes :
          /\ challenge' = Challenge(id, "Cryptography",
                              author.original_plaintext,
                              author.final_ciphertext, "aes",
                              Pasted(author.config_list, mode))
          /\ author' = [author EXCEPT !.phase = "stored", !.pasted = mode]
    /\ UNCHANGED <<submitted_solution, result, cipher, call, current_app, requests, page, db>>

\* A player submits Flag{<id>_<plaintext>} and the handler verifies it.
SubmitFlag ==
    /\ author.phase = "stored"
    /\ LET submitted == FlagPrefix \o <<48 + challenge.id>> \o Underscore
                        \o author.original_plaintext \o FlagSuffix
       IN  /\ submitted_solution' = submitted
           /\ result' = verify_challenge_solution(submitted, challenge)
    /\ author' = [author EXCEPT !.phase = "verified"]
    /\ UNCHANGED <<challenge, cipher, call, current_app, requests, page, db>>

NextAuthor ==
    \/ ReadPlaintext
    \/ LayerAes
    \/ LayerVigenere
    \/ LayerRsa
    \/ LayerFails
    \/ LayersDone
    \/ StoreChallenge
    \/ SubmitFlag

SpecAuthor == InitAuthor /\ [][NextAuthor]_vars

\* C8: whatever plaintext and layers the author typed, once the printed
\* blob and layer records are stored and Flag{<id>_<plaintext>} is
\* submitted, the layers are inverted back to the plaintext and the
\* submission is verified True.
C8_AuthoredChallengeVerifies ==
    author.phase = "verified" =>
        /\ ~result.raised
        /\ result.verdict
        /\ result.final = Str(author.original_plaintext)

\* C18: every record of the list the composer prints carries a lower-case
\* type that is one of aes, vigenere, rsa and, beside it, the keys the
\* verification reads for that type: key and iv, key, or private_key and
\* public_key.
C18_EmittedRecordsAreRead ==
    author.phase \in {"printed", "stored", "verified"} =>
        \A i \in 1..Len(author.config_list.items) :
            LET entry == author.config_list.items[i]
                type == GetType(entry)
            IN  /\ type \in {"aes", "vigenere", "rsa"}
                /\ type = "aes" => HasKey(entry, "key") /\ HasKey(entry, "iv")
                /\ type = "vigenere" => HasKey(entry, "key")
                /\ type = "rsa" => HasKey(entry, "private_key")
                                   /\ HasKey(entry, "public_key")

\* C23: a composition that was aborted by a failing layer has printed no
\* final ciphertext and no layer record, whatever layers were applied
\* before, and nothing is stored or verified after it.
C23_AbortEmitsNothing ==
    author.phase = "aborted" =>
        /\ author.final_ciphertext = None
        /\ author.config_list = JList(<<>>)
        /\ author.pasted = ""
        /\ challenge = NoChallenge

\* C23 witness: the third layer failed after two layers had been applied.
C23_Witness ==
    /\ author.phase = "aborted"
    /\ Len(author.layer_details) = 2
    /\ author.final_ciphertext = None
    /\ author.config_list = JList(<<>>)

----------------------------------------------------------------------------
(* The inverses of app/utils.py called on their own, with arguments of     *)
(* every kind the pipeline can hand them: challenge_data and the values of *)
(* a JSON configuration.                                                   *)

\* None, a number, "", "b" (one base64 character), "aZaa" (base64 of
\* nothing the model made), the two stored ciphertexts, an AES ciphertext
\* whose plaintext is not UTF-8, one whose padding is wrong, an RSA
\* ciphertext whose plaintext is not UTF-8, and "b a!" for the Vigenere
CallTexts ==
    {None, Num(5), Str(<<>>), VigBlob, Str(<<97, 90, 97, 97>>),
     AesBlob, RsaBlob,
     B64(AesCt(1, 2, Padded(Garbage))),
     B64(AesCt(1, 2, Garbage)),
     B64(RsaCt(1, Garbage)),
     Str(<<98, 32, 97, 33>>)}

\* None, a number, "", "b", two 16-byte keys, a one-byte key, a private
\* key, another one, a public key, "B", "1"
CallKeys ==
    {None, Num(5), Str(<<>>), VigBlob, KeyB64(1), KeyB64(2),
     B64(Enc(Secret)),
     Pem("private", 1), Pem("private", 2), Pem("public", 1),
     KeyB, KeyNoLetters}

\* fn and args of the call, the exception raised inside its try block ("" if
\* none) and what the function gave back to its caller
CallState(phase, fn, args, exc, out) ==
    [phase |-> phase, fn |-> fn, args |-> args, exc |-> exc, out |-> out]

InitDecrypt ==
    /\ call = CallState("ready", "", <<>>, "", None)
    /\ current_app = NoAttr
    /\ requests = <<>>
    /\ page = Idle
    /\ db = Idle
    /\ challenge = NoChallenge
    /\ submitted_solution = <<>>
    /\ result = NotRun
    /\ cipher = Idle
    /\ author = Idle

NotCall == <<challenge, submitted_solution, result, cipher, author, current_app, requests, page, db>>

CallAesDecrypt ==
    /\ call.phase = "ready"
    /\ \E c \in CallTexts, k \in CallKeys, v \in CallKeys :
          call' = CallState("returned", "aes_decrypt", <<c, k, v>>,
                            aes_decrypt_try(c, k, v).exc,
                            aes_decrypt(c, k, v))
    /\ UNCHANGED NotCall

CallVigenereDecrypt ==
    /\ call.phase = "ready"
    /\ \E c \in CallTexts, k \in CallKeys :
          call' = CallState("returned", "vigenere_decrypt", <<c, k>>,
                            vigenere_decrypt_try(c, k).exc,
                            vigenere_decrypt(c, k))
    /\ UNCHANGED NotCall

CallRsaDecrypt ==
    /\ call.phase = "ready"
    /\ \E c \in CallTexts, k \in CallKeys :
          call' = CallState("returned", "rsa_decrypt", <<c, k>>,
                            rsa_decrypt_try(c, k).exc,
                            rsa_decrypt(c, k))
    /\ UNCHANGED NotCall

NextDecrypt ==
    \/ CallAesDecrypt
    \/ CallVigenereDecrypt
    \/ CallRsaDecrypt

SpecDecrypt == InitDecrypt /\ [][NextDecrypt]_vars

\* C13: whatever its arguments, each inverse gives its caller a text or
\* None and no exception; an exception raised inside it comes out as None.
C13_InversesTotal ==
    call.phase = "returned" =>
        /\ call.out.t # "raise"
        /\ call.out.t = "None" \/ IsStrValue(call.out)
        /\ call.exc # "" => call.out.t = "None"

\* C13 witness: each kind of internal error has come out as None; this
\* state is rsa_decrypt given a ciphertext of the right key whose plaintext
\* is not valid UTF-8.
C13_Witness ==
    /\ call.phase = "returned"
    /\ call.fn = "rsa_decrypt"
    /\ call.exc = "UnicodeDecodeError"
    /\ call.out.t = "None"

----------------------------------------------------------------------------
(* Several requests in one process.  The development server of run.py      *)
(* serves each request in a thread of its own, and current_app is the one  *)
(* Flask object of the process: every invocation of                        *)
(* verify_challenge_solution sets, reads and deletes the same attribute    *)
(* challenge_id_for_log.  An invocation is cut at its accesses to that     *)
(* attribute; everything else it computes is local to it.                  *)

\* requests served at once
Workers == 2

\* One invocation: its arguments, where it stands, what hasattr told its
\* print, whether that print is the one inside the try block of
\* vigenere_decrypt, and how it ended.
Request(ch, submitted, pc, seen, in_try, raised, verdict) ==
    [challenge |-> ch, submitted_solution |-> submitted, pc |-> pc,
     seen |-> seen, in_try |-> in_try, raised |-> raised, verdict |-> verdict]

\* What the invocation computes from its own arguments
Alone(r) == verify_challenge_solution(r.submitted_solution, r.challenge)

\* utils.py 35, 49, 73, 93: an inverse that fails prints a line with the
\* attribute in it
FailedInverse(o) ==
    o.calls # <<>> /\ o.calls[Len(o.calls)].output = None

\* utils.py 48-50: the failing inverse is vigenere_decrypt with a key
\* without letters, whose print is inside the try block
WarnsInTry(ch, o) ==
    /\ FailedInverse(o)
    /\ LET last == o.calls[Len(o.calls)]
           config == ch.config_json.doc
           holder == IF o.path = "layered"
                     THEN config.m.layers.items[last.layer] ELSE config
       IN  /\ last.fn = "vigenere"
           /\ vigenere_decrypt_try(last.input, Get(holder, "key")).exc = ""

\* The challenges and submissions served: a web challenge with its flag,
\* with a wrong answer, with a string that is no token and with nothing;
\* a cipher challenge whose AES key is the wrong one, one whose Vigenere
\* key has no letters, one that is solved, and one whose configuration is
\* the JSON null.
Served ==
    LET web == Challenge(7, "Web", <<97>>, None, "", NoConfig)
        crypto(blob, et, cfg) == Challenge(8, "Cryptography", <<97>>, blob, et, cfg)
        token(id, answer) == FlagPrefix \o <<id, 95, answer>> \o FlagSuffix
    IN  {<<web, token(55, 97)>>,
         <<web, token(55, 98)>>,
         <<web, <<120>> >>,
         <<web, <<>> >>,
         <<crypto(AesBlob, "aes", Json(JObj([key |-> KeyB64(2), iv |-> KeyB64(1)]))), token(56, 97)>>,
         <<crypto(VigBlob, "vigenere", Json(JObj([key |-> KeyNoLetters]))), token(56, 97)>>,
         <<crypto(VigBlob, "vigenere", Json(JObj([key |-> KeyB]))), token(56, 97)>>,
         <<crypto(VigBlob, "vigenere", Json(None)), token(56, 97)>>}

InitServe ==
    /\ requests \in [1..Workers ->
           {Request(c[1], c[2], "ready", FALSE, FALSE, FALSE, FALSE) : c \in Served}]
    /\ current_app = NoAttr
    /\ challenge = NoChallenge
    /\ submitted_solution = <<>>
    /\ result = NotRun
    /\ cipher = Idle
    /\ author = Idle
    /\ call = Idle
    /\ page = Idle
    /\ db = Idle

NotServe == <<challenge, submitted_solution, result, cipher, author, call, page, db>>

\* utils.py 127-132: the guard, then
\* current_app.challenge_id_for_log = challenge.id
Enter(i) ==
    /\ requests[i].pc = "ready"
    /\ LET r == requests[i]
           o == Alone(r)
       IN  IF o.path = "absent"
           THEN /\ requests' = [requests EXCEPT ![i].pc = "done"]
                /\ UNCHANGED current_app
           ELSE /\ current_app' = [has |-> TRUE,
                                   challenge_id_for_log |-> r.challenge.id]
                /\ requests' = [requests EXCEPT
                       ![i].pc = IF FailedInverse(o) THEN "print" ELSE "leave",
                       ![i].in_try = WarnsInTry(r.challenge, o)]
    /\ UNCHANGED NotServe

\* utils.py 35, 49, 73, 93: hasattr(current_app, 'challenge_id_for_log')
LogTest(i) ==
    /\ requests[i].pc = "print"
    /\ requests' = [requests EXCEPT ![i].pc = "read", ![i].seen = current_app.has]
    /\ UNCHANGED <<current_app, NotServe>>

\* utils.py 35, 49, 73, 93: current_app.challenge_id_for_log when hasattr
\* was True, 'N/A' otherwise.  The read raises AttributeError when the
\* attribute has gone since; inside the try block of vigenere_decrypt the
\* handler of line 72 catches it and prints in its turn, in a handler it
\* leaves the inverse and the invocation.
LogRead(i) ==
    /\ requests[i].pc = "read"
    /\ LET r == requests[i]
           gone == r.seen /\ ~current_app.has
       IN  requests' = [requests EXCEPT ![i] =
               IF ~gone THEN [r EXCEPT !.pc = "leave"]
               ELSE IF r.in_try THEN [r EXCEPT !.pc = "print", !.in_try = FALSE]
               ELSE [r EXCEPT !.pc = "done", !.raised = TRUE]]
    /\ UNCHANGED <<current_app, NotServe>>

\* utils.py 141, 152, 161, 167, 183, 332: del current_app.challenge_id_for_log
\* and the return; del raises AttributeError when the attribute is not
\* there.  An invocation that config.get or layer_config.get ends with
\* AttributeError leaves without the del.
Exit(i) ==
    /\ requests[i].pc = "leave"
    /\ LET r == requests[i]
           o == Alone(r)
       IN  IF o.raised
           THEN /\ requests' = [requests EXCEPT ![i] =
                       [r EXCEPT !.pc = "done", !.raised = TRUE]]
                /\ UNCHANGED current_app
           ELSE IF ~current_app.has
           THEN /\ requests' = [requests EXCEPT ![i] =
                       [r EXCEPT !.pc = "done", !.raised = TRUE]]
                /\ UNCHANGED current_app
           ELSE /\ requests' = [requests EXCEPT ![i] =
                       [r EXCEPT !.pc = "done", !.verdict = o.verdict]]
                /\ current_app' = NoAttr
    /\ UNCHANGED NotServe

NextServe ==
    \/ \E i \in 1..Workers : Enter(i)
    \/ \E i \in 1..Workers : LogTest(i)
    \/ \E i \in 1..Workers : LogRead(i)
    \/ \E i \in 1..Workers : Exit(i)

SpecServe == InitServe /\ [][NextServe]_vars

\* C17: an invocation that has ended, and that would have returned a
\* verdict had it run alone, has returned that verdict and has not raised,
\* whatever the other invocations of the process did meanwhile.
C17_ConcurrentAsAlone ==
    \A i \in DOMAIN requests :
        (requests[i].pc = "done" /\ ~Alone(requests[i]).raised) =>
            /\ ~requests[i].raised
            /\ requests[i].verdict = Alone(requests[i]).verdict

----------------------------------------------------------------------------
(* The challenge details route (app/challenges/routes.py 96-155): one      *)
(* request of a logged-in user for a challenge that exists.  What the      *)
(* client gets is the status, the messages flashed and the already_solved  *)
(* mark of the template, beside the challenge and the form it sent.        *)

Flash(message, category) == [message |-> message, category |-> category]

\* A variant of the message that names the return statement that rejected.
rejection_flash_reason(o) == Flash(o.path, "danger")

\* routes.py 148: the message of the else branch
rejection_flash(o) == Flash("Incorrect solution. Please try again!", "danger")

\* routes.py 130-144: the messages about role upgrades after a solve
upgrade_flashes(user) ==
    (IF user.role = "enthusiast" /\ user.easy_enough
     THEN <<Flash("qualify for Buyer status", "info")>> ELSE <<>>)
    \o (IF user.role \in {"enthusiast", "buyer"} /\ user.hard_enough
        THEN <<Flash("qualify for Seller status", "info")>> ELSE <<>>)

\* What the route leaves: the inputs it was given beside the challenge and
\* the form, the status of the response, its flashed messages, the
\* already_solved mark and whether a SolvedChallenge row was added.
PageState(phase, is_active, was_solved, user, status, flashes, already_solved, recorded) ==
    [phase |-> phase, is_active |-> is_active, was_solved |-> was_solved,
     user |-> user, status |-> status, flashes |-> flashes,
     already_solved |-> already_solved, recorded |-> recorded]

\* forms.py 8 DataRequired: the field holds something beside whitespace
validate_on_submit(solution) == strip(solution) # <<>>

Users ==
    {[role |-> "enthusiast", easy_enough |-> TRUE, hard_enough |-> TRUE],
     [role |-> "enthusiast", easy_enough |-> FALSE, hard_enough |-> FALSE],
     [role |-> "buyer", easy_enough |-> TRUE, hard_enough |-> TRUE],
     [role |-> "seller", easy_enough |-> TRUE, hard_enough |-> TRUE]}

\* The challenges requested: a web challenge, the cipher challenges with a
\* single algorithm, and layered ones of one layer.
PageChallenges ==
    {Challenge(7, "Web", <<97>>, None, "", NoConfig)}
    \cup {Challenge(7, "Cryptography", <<97>>, blob, et, cfg) :
            blob \in {None, AesBlob, VigBlob}, et \in EncryptionTypes,
            cfg \in SingleConfigs}
    \cup {Challenge(7, "Cryptography", <<97>>, blob, "aes",
                    Json(JObj([layers |-> JList(<<l>>)]))) :
            blob \in {AesBlob, VigBlob}, l \in LayerChoices}

\* The solution field: the tokens of the cipher challenges, "Flag{x_a}",
\* "x", " " and ""
PageSolutions ==
    CryptoTokens
    \cup {FlagPrefix \o <<120, 95, 97>> \o FlagSuffix, <<120>>, <<32>>, <<>>}

InitPage ==
    /\ challenge \in PageChallenges
    /\ submitted_solution \in PageSolutions
    /\ \E active \in BOOLEAN, solved \in BOOLEAN, user \in Users :
          /\ active \/ ~solved
          /\ page = PageState("posted", active, solved, user, 0, <<>>, solved, FALSE)
    /\ result = NotRun
    /\ cipher = Idle
    /\ author = Idle
    /\ call = Idle
    /\ current_app = NoAttr
    /\ requests = <<>>
    /\ db = Idle

\* app/challenges/routes.py details, a POST
Details ==
    /\ page.phase = "posted"
    /\ LET o == verify_challenge_solution(submitted_solution, challenge)
           done(status, flashes, already_solved, recorded) ==
               [page EXCEPT !.phase = "responded", !.status = status,
                            !.flashes = flashes,
                            !.already_solved = already_solved,
                            !.recorded = recorded]
       IN  IF ~page.is_active
           THEN \* 103-105
                /\ page' = done(302, <<Flash("This challenge is currently unavailable.", "warning")>>,
                                page.was_solved, FALSE)
                /\ UNCHANGED result
           ELSE IF ~validate_on_submit(submitted_solution)
           THEN \* 115 is False: the page is rendered again
                /\ page' = done(200, <<>>, page.was_solved, FALSE)
                /\ UNCHANGED result
           ELSE IF page.was_solved
           THEN \* 116-117
                /\ page' = done(200, <<Flash("You have already solved this challenge!", "info")>>,
                                TRUE, FALSE)
                /\ UNCHANGED result
           ELSE /\ result' = o
                /\ page' =
                     IF o.raised
                     THEN \* the exception leaves the view: no handler
                          done(500, <<>>, FALSE, FALSE)
                     ELSE IF o.verdict
                     THEN \* 120-144
                          done(200,
                               <<Flash("Congratulations! You solved the challenge correctly!", "success")>>
                               \o upgrade_flashes(page.user), TRUE, TRUE)
                     ELSE \* 146-148
                          done(200, <<rejection_flash(o)>>, FALSE, FALSE)
    /\ UNCHANGED <<challenge, submitted_solution, cipher, author, call, current_app, requests, db>>

NextPage == Details

SpecPage == InitPage /\ [][NextPage]_vars

\* The verification was called and returned False
Rejected ==
    page.phase = "responded" /\ result.path # "not_run"
    /\ ~result.raised /\ ~result.verdict

\* C19: whichever return statement made verify_challenge_solution return
\* False, the response is the same: status 200, the one message
\* "Incorrect solution. Please try again!", the challenge not marked
\* solved and no solve recorded.
C19_RejectionsLookAlike ==
    Rejected =>
        /\ page.status = 200
        /\ page.flashes = <<Flash("Incorrect solution. Please try again!", "danger")>>
        /\ ~page.already_solved
        /\ ~page.recorded

\* C19 witness: a rejection by a failed inverse of a layered challenge has
\* been answered.
C19_Witness ==
    /\ Rejected
    /\ result.path = "layered"
    /\ FailedInverse(result)

----------------------------------------------------------------------------
(* The shift of one letter: every ASCII letter under every key letter, by  *)
(* vigenere_encrypt of tool.py and by vigenere_decrypt of app/utils.py.    *)

AsciiLetters == (65..90) \cup (97..122)
KeyLetters == 65..90

InitShift ==
    /\ \E c \in AsciiLetters, k \in KeyLetters :
          cipher = CipherState("letter", "vigenere", Str(<<c>>), None,
                               Str(<<k>>), None, None, FALSE)
    /\ challenge = NoChallenge
    /\ submitted_solution = <<>>
    /\ result = NotRun
    /\ author = Idle
    /\ call = Idle
    /\ current_app = NoAttr
    /\ requests = <<>>
    /\ page = Idle
    /\ db = Idle

\* tool.py vigenere_encrypt on the letter
ShiftForward ==
    /\ cipher.phase = "letter"
    /\ LET r == vigenere_encrypt(cipher.plaintext, cipher.key, <<>>)
       IN  cipher' = [cipher EXCEPT !.phase = "shifted_forward",
                                    !.ciphertext = r.ciphertext]
    /\ UNCHANGED Others

\* app/utils.py vigenere_decrypt on the letter
ShiftBackward ==
    /\ cipher.phase = "letter"
    /\ cipher' = [cipher EXCEPT
                     !.phase = "shifted_backward",
                     !.dkey = cipher.key,
                     !.decrypted = vigenere_decrypt(cipher.plaintext, cipher.key)]
    /\ UNCHANGED Others

NextShift ==
    \/ ShiftForward
    \/ ShiftBackward

SpecShift == InitShift /\ [][NextShift]_vars

\* the first letter of the alphabet range c lies in: 'A' or 'a'
RangeStart(c) == IF c \in 65..90 THEN 65 ELSE 97
\* the letter n places after c in its range, going round
LetterAfter(c, n) == RangeStart(c) + (((c - RangeStart(c)) + n) % 26)

\* C24: a letter c under the key letter k is encrypted to the letter
\* (pos(c) + (k - 'A')) mod 26 places into the range of c and decrypted to
\* the letter (pos(c) - (k - 'A')) mod 26 places into it: a letter of the
\* same case.
C24_ShiftModulo26 ==
    LET c == cipher.plaintext.s[1]
        k == cipher.key.s[1]
    IN  /\ cipher.phase = "shifted_forward" =>
              cipher.ciphertext = Str(<<LetterAfter(c, k - 65)>>)
        /\ cipher.phase = "shifted_backward" =>
              cipher.decrypted = Str(<<LetterAfter(c, 26 - (k - 65))>>)
        /\ cipher.phase \in {"shifted_forward", "shifted_backward"} =>
              LET out == IF cipher.phase = "shifted_forward"
                         THEN cipher.ciphertext ELSE cipher.decrypted
              IN  /\ out.t = "str" /\ Len(out.s) = 1
                  /\ out.s[1] \in RangeStart(c)..(RangeStart(c) + 25)

\* C24 witness: 'b' under the key letter 'Z' was decrypted to 'c', going
\* round the end of the lower-case range.
C24_Witness ==
    /\ cipher.phase = "shifted_backward"
    /\ cipher.plaintext = Str(<<98>>) /\ cipher.key = Str(<<90>>)
    /\ cipher.decrypted = Str(<<99>>)

----------------------------------------------------------------------------
(* Paying for the cart (app/marketplace/routes.py): one PaymentTransaction *)
(* of a buyer, created 'initiated' by checkout, and the two handlers that  *)
(* can complete it, mpesa_callback and checkout_status.  Each request has  *)
(* a database session of its own: what it loaded stays as it was loaded,   *)
(* and the handlers are cut at their queries and commits.                  *)

Products == {1, 2}

\* "DEFAULT_CODE": SIMULATED_MPESA_CONFIRMATION_CODE is not an attribute of
\* Config (config.py 55 is at module level), so routes.py 552 gets the default
ExpectedCode == <<68, 69, 70, 65, 85, 76, 84, 95, 67, 79, 68, 69>>

\* str.casefold, on ASCII text
casefold(s) == [i \in 1..Len(s) |-> IF s[i] \in 65..90 THEN s[i] + 32 ELSE s[i]]

\* marketplace/forms.py 35: DataRequired(), Length(min=9, max=15)
verify_form_valid(mpesa_code) ==
    strip(mpesa_code) # <<>> /\ Len(mpesa_code) >= 9 /\ Len(mpesa_code) <= 15

\* routes.py 561: expected_code and submitted_code.casefold() == expected_code.casefold()
code_accepted(mpesa_code) ==
    ExpectedCode # <<>> /\ casefold(strip(mpesa_code)) = casefold(ExpectedCode)

\* The codes typed in: the expected one, " default_code ", "WRONGCODE" and
\* "abc"
TypedCodes ==
    {ExpectedCode,
     <<32>> \o casefold(ExpectedCode) \o <<32>>,
     <<87, 82, 79, 78, 71, 67, 79, 68, 69>>,
     <<97, 98, 99>>}

\* the receipt number a callback carries: "R"
CallbackReceipt == <<82>>

\* One request in flight: the handler, where it stands, its input (the code
\* typed in, or the ResultCode of the callback), the status of the
\* transaction as its session loaded it and the cart items it queried.
PayRequest(kind, mpesa_code, result_code) ==
    [kind |-> kind, pc |-> "load", mpesa_code |-> mpesa_code,
     result_code |-> result_code, status |-> "", items |-> {}]

PayRequests ==
    {PayRequest("checkout_status", c, 0) : c \in TypedCodes}
    \cup {PayRequest("mpesa_callback", <<>>, rc) : rc \in {0, 1}}

\* The rows: the transaction, the CartItem rows of the buyer (one per
\* product, models.py 208), the products that are available, and the
\* Purchase rows in the order they were added.
InitPay ==
    /\ \E cart \in SUBSET Products, available \in SUBSET Products :
          /\ cart # {}
          /\ db = [transaction |-> [status |-> "initiated",
                                     mpesa_receipt_number |-> <<>>],
                   cart |-> cart, available |-> available,
                   purchases |-> <<>>]
    /\ requests \in [1..Workers -> PayRequests]
    /\ challenge = NoChallenge
    /\ submitted_solution = <<>>
    /\ result = NotRun
    /\ cipher = Idle
    /\ author = Idle
    /\ call = Idle
    /\ current_app = NoAttr
    /\ page = Idle

NotPay == <<challenge, submitted_solution, result, cipher, author, call, current_app, page>>

\* routes.py 470 and 541: the transaction is loaded into the session
LoadTransaction(i) ==
    /\ requests[i].pc = "load"
    /\ LET r == requests[i]
           status == db.transaction.status
           next ==
               IF r.kind = "mpesa_callback"
               THEN \* 479-518: which branch will commit
                    IF r.result_code = 0 /\ status = "completed" THEN "done"
                    ELSE IF r.result_code # 0 /\ status # "initiated" THEN "done"
                    ELSE "commit_status"
               ELSE \* 546-564: the form is there for 'initiated' and
                    \* 'pending' only, and the code must be the expected one
                    IF status \in {"initiated", "pending"}
                       /\ verify_form_valid(r.mpesa_code)
                       /\ code_accepted(r.mpesa_code)
                       /\ status # "completed"
                    THEN "commit_status" ELSE "done"
       IN  requests' = [requests EXCEPT ![i].status = status, ![i].pc = next]
    /\ UNCHANGED <<db, NotPay>>

\* routes.py 481-488, 505-508, 513-515 and 564-569: the new status is
\* committed
CommitStatus(i) ==
    /\ requests[i].pc = "commit_status"
    /\ LET r == requests[i]
       IN  IF r.kind = "mpesa_callback"
           THEN /\ db' = [db EXCEPT !.transaction =
                            IF r.result_code # 0
                            THEN [@ EXCEPT !.status = "failed"]
                            ELSE [status |->
                                     IF r.status = "initiated" THEN "completed"
                                     ELSE "completed_late_callback",
                                  mpesa_receipt_number |-> CallbackReceipt]]
                /\ requests' = [requests EXCEPT ![i].pc = "done"]
           ELSE /\ db' = [db EXCEPT !.transaction =
                            [status |-> "completed",
                             mpesa_receipt_number |-> strip(r.mpesa_code)]]
                /\ requests' = [requests EXCEPT ![i].pc = "query_cart"]
    /\ UNCHANGED NotPay

\* routes.py 574: CartItem.query.filter_by(user_id=...).all()
QueryCart(i) ==
    /\ requests[i].pc = "query_cart"
    /\ requests' = [requests EXCEPT
           ![i].items = db.cart,
           ![i].pc = IF db.cart = {} THEN "done" ELSE "commit_order"]
    /\ UNCHANGED <<db, NotPay>>

\* routes.py 577-588: one Purchase for each item whose product is available
RECURSIVE purchases_of(_, _)
purchases_of(items, available) ==
    IF items = {} THEN <<>>
    ELSE LET item == CHOOSE p \in items : \A q \in items : p <= q
         IN  (IF item \in available THEN <<item>> ELSE <<>>)
             \o purchases_of(items \ {item}, available)

\* routes.py 577-592: the purchases are added, the items queried are
\* deleted, and both are committed.  Deleting a row that another session
\* has deleted meanwhile deletes nothing.
CommitOrder(i) ==
    /\ requests[i].pc = "commit_order"
    /\ db' = [db EXCEPT
                 !.purchases = @ \o purchases_of(requests[i].items, db.available),
                 !.cart = @ \ requests[i].items]
    /\ requests' = [requests EXCEPT ![i].pc = "done"]
    /\ UNCHANGED NotPay

NextPay ==
    \/ \E i \in 1..Workers : LoadTransaction(i)
    \/ \E i \in 1..Workers : CommitStatus(i)
    \/ \E i \in 1..Workers : QueryCart(i)
    \/ \E i \in 1..Workers : CommitOrder(i)

SpecPay == InitPay /\ [][NextPay]_vars

\* A manual verification with the expected code that ended after a success
\* callback had completed the transaction
VerifiedAfterCallback(i) ==
    /\ requests[i].kind = "checkout_status"
    /\ requests[i].pc = "done"
    /\ requests[i].status = "completed"
    /\ verify_form_valid(requests[i].mpesa_code)
    /\ code_accepted(requests[i].mpesa_code)
    /\ db.transaction.mpesa_receipt_number = CallbackReceipt

\* C25: once a manual verification with the expected code has ended for a
\* transaction that a success callback had completed, the cart is empty
\* and every available product that was in it has a Purchase.
C25_ManualVerificationProcesses ==
    \A i \in DOMAIN requests :
        VerifiedAfterCallback(i) =>
            /\ db.cart = {}
            /\ db.purchases # <<>> \/ db.available = {}

\* the Purchase rows of product p
PurchasesOf(p) == {k \in 1..Len(db.purchases) : db.purchases[k] = p}

\* C28: whatever the handlers in flight did, no product of the cart has
\* more than one Purchase.
C28_OrderProcessedOnce ==
    \A p \in Products : Cardinality(PurchasesOf(p)) <= 1

----------------------------------------------------------------------------
(* Submissions to the challenge details route served at once               *)
(* (app/challenges/routes.py 97-130).  Each request has a database session *)
(* of its own and is cut at its query for an earlier solve and at its      *)
(* commit of the new SolvedChallenge row; the table has no unique          *)
(* constraint on (user_id, challenge_id) (models.py 149-155).              *)

UserIds == {1, 2}

\* the challenge submitted to: a web challenge with the flag "a"
SolveChallenge == Challenge(7, "Web", <<97>>, None, "", NoConfig)

\* "Flag{7_a}", "Flag{7_b}" and " "
SolveSolutions ==
    {FlagPrefix \o <<55, 95, 97>> \o FlagSuffix,
     FlagPrefix \o <<55, 95, 98>> \o FlagSuffix,
     <<32>>}

\* One request in flight: who sent it, the solution field, where it stands,
\* the already_solved it computed and the verdict it got.
SolveRequest(user_id, solution) ==
    [user_id |-> user_id, solution |-> solution, pc |-> "query",
     already_solved |-> FALSE, verified |-> FALSE]

InitSolve ==
    /\ challenge = SolveChallenge
    /\ \E is_active \in BOOLEAN : db = [is_active |-> is_active, solved |-> <<>>]
    /\ requests \in [1..Workers ->
           {SolveRequest(u, s) : u \in UserIds, s \in SolveSolutions}]
    /\ submitted_solution = <<>>
    /\ result = NotRun
    /\ cipher = Idle
    /\ author = Idle
    /\ call = Idle
    /\ current_app = NoAttr
    /\ page = Idle

NotSolve == <<challenge, submitted_solution, result, cipher, author, call, current_app, page>>

\* the SolvedChallenge rows of the user for the challenge
SolvedRows(user_id, challenge_id) ==
    {k \in 1..Len(db.solved) :
        db.solved[k] = [user_id |-> user_id, challenge_id |-> challenge_id]}

\* routes.py 100-111: the challenge is loaded, an inactive one redirects,
\* and the earlier solve of the user is looked for
QuerySolved(i) ==
    /\ requests[i].pc = "query"
    /\ requests' = [requests EXCEPT
           ![i].pc = IF db.is_active THEN "submit" ELSE "done",
           ![i].already_solved =
               db.is_active /\ SolvedRows(requests[i].user_id, challenge.id) # {}]
    /\ UNCHANGED <<db, NotSolve>>

\* routes.py 115-148: the form is validated, the solution verified and a
\* SolvedChallenge row committed for a True verdict
SubmitSolution(i) ==
    /\ requests[i].pc = "submit"
    /\ LET r == requests[i]
           o == verify_challenge_solution(r.solution, challenge)
           solves == validate_on_submit(r.solution) /\ ~r.already_solved
                     /\ ~o.raised /\ o.verdict
       IN  /\ requests' = [requests EXCEPT ![i].pc = "done",
                                           ![i].verified = solves]
           /\ db' = IF solves
                    THEN [db EXCEPT !.solved =
                             Append(@, [user_id |-> r.user_id,
                                        challenge_id |-> challenge.id])]
                    ELSE db
    /\ UNCHANGED NotSolve

NextSolve ==
    \/ \E i \in 1..Workers : QuerySolved(i)
    \/ \E i \in 1..Workers : SubmitSolution(i)

SpecSolve == InitSolve /\ [][NextSolve]_vars

\* C27: a user has at most one SolvedChallenge row for the challenge, and
\* has one only if a submission of that user was verified True while the
\* challenge was active.
C27_OneSolvePerUser ==
    \A u \in UserIds :
        /\ Cardinality(SolvedRows(u, challenge.id)) <= 1
        /\ SolvedRows(u, challenge.id) # {} =>
              /\ db.is_active
              /\ \E i \in DOMAIN requests :
                    requests[i].user_id = u /\ requests[i].verified

----------------------------------------------------------------------------
(* Role upgrades (app/auth/routes.py 153-199): one user, who solves easy   *)
(* and hard challenges and asks for roles.                                 *)

\* config.py 15, 16
EASY_CHALLENGES_REQUIRED_FOR_BUYER == 3
HARD_CHALLENGES_REQUIRED_FOR_SELLER == 5
\* most challenges of one difficulty the user solves
MaxSolved == 6

Roles == {"enthusiast", "buyer", "seller", "admin"}
\* what stands in the URL for <role>
RequestedRoles == Roles \cup {"owner"}

\* A variant of the handler that gives the role asked for.
upgrade_role_unchecked(role, user) ==
    IF role \in {"buyer", "seller"}
    THEN [role |-> role, flash |-> "upgraded"]
    ELSE [role |-> user.role, flash |-> "invalid"]

\* app/auth/routes.py upgrade_role: the role of the user after the request
\* and the kind of message flashed
upgrade_role(role, user) ==
    LET can_be_buyer == user.easy_solved >= EASY_CHALLENGES_REQUIRED_FOR_BUYER
        can_be_seller == user.hard_solved >= HARD_CHALLENGES_REQUIRED_FOR_SELLER
    IN  IF role = "buyer"
        THEN IF can_be_buyer /\ user.role \notin {"buyer", "seller", "admin"}
             THEN [role |-> "buyer", flash |-> "upgraded"]
             ELSE IF user.role \in {"buyer", "seller", "admin"}
             THEN [role |-> user.role, flash |-> "already"]
             ELSE [role |-> user.role, flash |-> "need_more"]
        ELSE IF role = "seller"
        THEN IF can_be_seller /\ user.role # "admin"
             THEN [role |-> "seller", flash |-> "upgraded"]
             ELSE IF user.role = "admin"
             THEN [role |-> user.role, flash |-> "already"]
             ELSE [role |-> user.role, flash |-> "need_more"]
        ELSE [role |-> user.role, flash |-> "invalid"]

\* db is the User row with the counts of its solved challenges; page is the
\* last request: the role asked for and the row as it was before it.
InitRole ==
    /\ \E role \in Roles : db = [role |-> role, easy_solved |-> 0, hard_solved |-> 0]
    /\ page = [phase |-> "none", requested |-> "", before |-> <<>>, flash |-> ""]
    /\ requests = <<>>
    /\ challenge = NoChallenge
    /\ submitted_solution = <<>>
    /\ result = NotRun
    /\ cipher = Idle
    /\ author = Idle
    /\ call = Idle
    /\ current_app = NoAttr

NotRole == <<challenge, submitted_solution, result, cipher, author, call, current_app, requests>>

\* the user solves one more easy challenge (a SolvedChallenge row joined
\* to a Challenge of difficulty 'easy', models.py 62-81)
SolveEasy ==
    /\ db.easy_solved < MaxSolved
    /\ db' = [db EXCEPT !.easy_solved = @ + 1]
    /\ UNCHANGED <<page, NotRole>>

SolveHard ==
    /\ db.hard_solved < MaxSolved
    /\ db' = [db EXCEPT !.hard_solved = @ + 1]
    /\ UNCHANGED <<page, NotRole>>

\* GET /upgrade_role/<role>
UpgradeRole ==
    /\ \E role \in RequestedRoles :
          LET r == upgrade_role(role, db)
          IN  /\ db' = [db EXCEPT !.role = r.role]
              /\ page' = [phase |-> "answered", requested |-> role,
                          before |-> <<db>>, flash |-> r.flash]
    /\ UNCHANGED NotRole

NextRole ==
    \/ SolveEasy
    \/ SolveHard
    \/ UpgradeRole

SpecRole == InitRole /\ [][NextRole]_vars

\* enthusiast < buyer < seller < admin
Rank(role) ==
    CASE role = "enthusiast" -> 0
      [] role = "buyer" -> 1
      [] role = "seller" -> 2
      [] OTHER -> 3

\* the last request changed the role
RoleChanged == page.phase = "answered" /\ db.role # page.before[1].role

\* C29: no step moves the role down the order; a request that changed the
\* role changed it to the role asked for, to buyer only with enough easy
\* solves and to seller only with enough hard solves at the time of the
\* request, and a request for anything else changed nothing.
C29_RoleOnlyUpWhenEarned ==
    /\ [][Rank(db'.role) >= Rank(db.role)]_vars
    /\ [](RoleChanged =>
            /\ db.role = page.requested
            /\ db.role \in {"buyer", "seller"}
            /\ db.role = "buyer" => page.before[1].easy_solved >= EASY_CHALLENGES_REQUIRED_FOR_BUYER
            /\ db.role = "seller" => page.before[1].hard_solved >= HARD_CHALLENGES_REQUIRED_FOR_SELLER)

\* C29 witness: an enthusiast with five hard solves and two easy ones asked
\* for seller and became one.
C29_Witness ==
    /\ RoleChanged
    /\ page.before[1].role = "enthusiast"
    /\ page.before[1].hard_solved = HARD_CHALLENGES_REQUIRED_FOR_SELLER
    /\ page.before[1].easy_solved < EASY_CHALLENGES_REQUIRED_FOR_BUYER
    /\ db.role = "seller"

----------------------------------------------------------------------------
(* Calls of verify_challenge_solution one after another in one process:    *)
(* current_app is the one Flask object, so what a call leaves on it is     *)
(* there when the next call begins.                                        *)

\* the challenges of these calls: the plain ones and the Vigenere
\* challenges over "b" with flag "a"
CallChallenges ==
    PlainChallenges \cup
    {c \in CryptoChallenges :
        c.flag = <<97>> /\ c.challenge_data = VigBlob /\ c.encryption_type = "vigenere"}

\* the strings submitted, the empty one among them
CallTokens == {<<>>} \cup CryptoTokens

InitCalls ==
    /\ challenge = NoChallenge
    /\ submitted_solution = <<>>
    /\ result = NotRun
    /\ current_app = NoAttr
    /\ cipher = Idle
    /\ author = Idle
    /\ call = Idle
    /\ requests = <<>>
    /\ page = Idle
    /\ db = Idle

\* utils.py 127-334 on current_app: line 128 returns before the attribute is
\* touched; line 132 sets it to challenge.id; each return after that is
\* preceded by its del (141, 152, 161, 167, 183, 332); an exception leaves
\* the function with the attribute as line 132 set it.
app_after(app, ch, o) ==
    IF o.path = "absent" THEN app
    ELSE IF o.attr_set THEN [has |-> TRUE, challenge_id_for_log |-> ch.id]
    ELSE NoAttr

\* one call, begun after the one before it has ended
CallVerify ==
    /\ \E ch \in CallChallenges, s \in CallTokens :
          LET o == verify_challenge_solution(s, ch)
          IN  /\ challenge' = ch
              /\ submitted_solution' = s
              /\ result' = o
              /\ current_app' = app_after(current_app, ch, o)
    /\ UNCHANGED <<cipher, author, call, requests, page, db>>

NextCalls == CallVerify

SpecCalls == InitCalls /\ [][NextCalls]_vars

====
